---- MODULE Spec2Model ----
(***************************************************************************)
(* Verification model of status-keycard-qt:                                *)
(*   - FlowStateMachine (flow_state_machine.cpp)                            *)
(*   - FlowManager / FlowBase (flow_manager.cpp, flow_base.cpp)             *)
(*   - SessionManager (session_manager.cpp, both revisions in the tree)     *)
(***************************************************************************)
EXTENDS Integers, Sequences, FiniteSets, TLC

\* ---------------------------------------------------------------------------
\* Bounds of the model
\* ---------------------------------------------------------------------------
MaxSignals == 3      \* stateChanged signals the observer keeps (the most recent ones)
MaxCalls == 3         \* calls and card events in all
MaxStarts == 2        \* startFlow calls, hence FlowBase objects created
MaxResumes == 2       \* resumeFlow calls made by the application
MaxCancels == 1       \* cancelFlow calls
MaxCardEvents == 2    \* card insertions and removals
MaxApduLog == 2       \* commands the CommandSet log keeps (the most recent)
MaxSmCalls == 7      \* SessionManager calls and reader events in all
MaxInsertions == 2   \* card insertions
MaxRetaps == 1       \* detections of a card that is already on the reader
MaxPinRetries == 3   \* the PIN retry counter of a card after a correct PIN
MaxExportLog == 3    \* exportKey calls the export log keeps (the first ones)

\* ---------------------------------------------------------------------------
\* FlowState (flow_types.h) and FlowStateMachine
\* ---------------------------------------------------------------------------
FlowState == {"Idle", "Running", "Paused", "Resuming", "Cancelling"}

VARIABLES
    m_state,        \* FlowStateMachine::m_state
    lastCall,       \* last transition() call: [from, to, ret, emitted] or NoCall
    stateChanged    \* the stateChanged(old, new) signals emitted, in order

fsmVars == <<m_state, lastCall, stateChanged>>

NoCall == [from |-> "-", to |-> "-", ret |-> FALSE, emitted |-> FALSE]

canTransition_wrong(s, newState) ==
    \/ newState = s
    \/ s = "Idle" /\ newState \in {"Running", "Paused"}
    \/ s = "Running" /\ newState \in {"Paused", "Cancelling", "Idle"}
    \/ s = "Paused" /\ newState \in {"Resuming", "Cancelling"}
    \/ s = "Resuming" /\ newState = "Running"
    \/ s = "Cancelling" /\ newState = "Idle"

\* FlowStateMachine::canTransition, evaluated with m_state = s
canTransition(s, newState) ==
    IF newState = s THEN TRUE
    ELSE CASE s = "Idle"       -> newState = "Running"
           [] s = "Running"    -> newState \in {"Paused", "Cancelling", "Idle"}
           [] s = "Paused"     -> newState \in {"Resuming", "Cancelling", "Running"}
           [] s = "Resuming"   -> newState = "Running"
           [] s = "Cancelling" -> newState = "Idle"
           [] OTHER            -> FALSE

\* FlowStateMachine::transition: the state it leaves behind when called in s
transitionState(s, newState) ==
    IF ~canTransition(s, newState) THEN s
    ELSE IF s = newState THEN s
    ELSE newState

\* FlowStateMachine::transition: whether stateChanged(old, new) is emitted
transitionEmits(s, newState) ==
    canTransition(s, newState) /\ s # newState

\* The observer's record of stateChanged: the most recent MaxSignals signals
Recent(log) ==
    IF Len(log) <= MaxSignals THEN log
    ELSE SubSeq(log, Len(log) - MaxSignals + 1, Len(log))

\* FlowStateMachine::transition: effect on m_state
fsmStep(newState) ==
    m_state' = transitionState(m_state, newState)

\* a reset that leaves the state where it is
fsmReset_wrong ==
    m_state' = m_state

\* FlowStateMachine::reset: hard reset to Idle
fsmReset ==
    m_state' = "Idle"

\* FlowStateMachine::transition called directly with a signal observer
\* attached (as the unit tests do)
transition(newState) ==
    /\ fsmStep(newState)
    /\ stateChanged' = IF transitionEmits(m_state, newState)
                       THEN Recent(Append(stateChanged, <<m_state, newState>>))
                       ELSE stateChanged
    /\ lastCall' = [from |-> m_state, to |-> newState,
                    ret |-> canTransition(m_state, newState),
                    emitted |-> transitionEmits(m_state, newState)]

\* FlowStateMachine::reset called directly: signal only if the state changed
reset ==
    /\ fsmReset
    /\ stateChanged' = IF m_state # "Idle"
                       THEN Recent(Append(stateChanged, <<m_state, "Idle">>))
                       ELSE stateChanged
    /\ lastCall' = NoCall

InitFsm ==
    /\ m_state = "Idle"
    /\ lastCall = NoCall
    /\ stateChanged = <<>>

\* ---------------------------------------------------------------------------
\* FlowManager and FlowBase: state
\* ---------------------------------------------------------------------------
Threads == {"main", "t1", "t2"}     \* event-loop thread and two caller threads
ApiThreads == {"t1", "t2"}
Controllers == {"t2"}               \* the caller that also resumes and cancels
FlowIds == 1..MaxStarts             \* FlowBase objects, in order of creation

\* FlowParams::PIN, PAIRING_PASS, NEW_PIN, NEW_PUK, MNEMONIC, MNEMONIC_LEN,
\* CARD_NAME
Keys == {"pin", "pairing-pass", "new-pin", "new-puk", "mnemonic",
         "mnemonic-length", "card-name"}
Absent == "-"                       \* key not present in a QJsonObject
NoParams == [k \in Keys |-> Absent]
StartCalls == { <<"Login", NoParams>>,
                <<"Login", [NoParams EXCEPT !["pin"] = "good"]>>,
                <<"Invalid", NoParams>> }  \* startFlow(type, params) calls made
ResumeInputs == { NoParams,
                  [NoParams EXCEPT !["pin"] = "good"],
                  [NoParams EXCEPT !["pin"] = "bad"] }

VARIABLES
    m_mutex,            \* FlowManager::m_mutex: "free" or the thread holding it
    m_currentFlow,      \* FlowManager::m_currentFlow: 0 (null) or a flow id
    m_flowFuture,       \* FlowManager::m_flowFuture: 0 (invalid) or a task id
    m_waitingForCard,   \* FlowManager::m_waitingForCard
    m_currentCardUid,   \* FlowManager::m_currentCardUid
    m_lastError,        \* FlowManager::m_lastError
    flows,              \* the FlowBase objects created so far
    tasks,              \* the QtConcurrent tasks of runFlowAsync
    thr,                \* per thread: position in the call it is executing
    mainQ,              \* queued slot invocations posted to the main thread
    calls,              \* calls and card events the environment may still make
    connected,          \* KeycardChannel::isConnected()
    paired,             \* PairingStorage holds a pairing for the card
    apduLog,            \* commands the running task sent through m_commandSet
    flowSignal          \* last signal handed to the application callback

flowVars == <<m_mutex, m_currentFlow, m_flowFuture, m_waitingForCard,
              m_currentCardUid, m_lastError, flows, tasks, thr, mainQ, calls,
              connected, paired, apduLog, flowSignal>>

\* ---------------------------------------------------------------------------
\* SessionManager: state.  The tree holds two revisions of
\* session_manager.cpp; smRev says which one is running (0: no SessionManager)
\* ---------------------------------------------------------------------------
SessionState == {"UnknownReaderState", "WaitingForReader", "WaitingForCard",
                 "ConnectingCard", "ConnectionError", "EmptyKeycard", "Ready",
                 "Authorized"}
SmThreads == {"main", "t1", "t2"}   \* event-loop thread and two caller threads
SmCallers == {"t1", "t2"}
SmOwners == {"t1"}                 \* the caller that starts, stops and resets
NoCommandSet == -1                  \* m_commandSet holds no object
TornDown == -2                      \* m_commandSet was reset by stop()

VARIABLES
    smRev,              \* revision of session_manager.cpp: 1 or 2
    sm_state,           \* SessionManager::m_state
    m_started,          \* SessionManager::m_started
    m_authorized,       \* SessionManager::m_authorized
    m_currentCardUID,   \* SessionManager::m_currentCardUID
    m_commandSet,       \* NoCommandSet, or the insertion during which the
                        \* CommandSet object was constructed (0: before any)
    m_channel,          \* SessionManager::m_channel holds a channel
    m_operationMutex,   \* "free", a thread, or "bg" (a background task)
    m_appInfo,          \* m_appInfo.initialized as read by the last SELECT
    sm_lastError,       \* SessionManager::m_lastError
    smThr,              \* per thread: position in the call it is executing
    bgPending,          \* background connect tasks not yet holding the mutex
    smQ,                \* queued lambdas posted to the main thread
    card,               \* the card on the reader: "none", "initialized", "empty"
    insertion,          \* number of card insertions so far
    connLog,            \* commands of connect sequences since the insertion
    smPaired,           \* the pairing store holds a pairing for the card
    mutexRecursive,     \* m_operationMutex may be locked again by its holder
    cardPw,             \* the pairing password the card was initialized with
    cardPinRetries,     \* the card's PIN retry counter
    rescan,             \* forceScan() was called: the channel will report the
                        \* card on the reader again
    chanOps,            \* the channel calls of the last initialize/factoryReset
    exportLog,          \* makeCurrent of the exportKey calls since the secure
                        \* channel session began (the first MaxExportLog)
    crashed,            \* 0, or the value of the reset m_commandSet pointer
                        \* that a call went through
    smCalls,            \* calls and reader events the environment may still make
    noSlotsAt,          \* the insertion during which PAIR was refused for
                        \* lack of a free pairing slot (0: never)
    statusRet           \* what the last getStatus returned, and who held
                        \* m_operationMutex when it did

VARIABLES
    m_pairings,         \* PairingStorage::m_pairings, NoPairing where the map
                        \* has no entry
    m_modified,         \* PairingStorage::m_modified
    pairingsFile,       \* the file at m_filePath: NoFile, Truncated, or the
                        \* JSON object that was written (kind "json")
    savedPairings,      \* the map the last save() wrote out in full, NoSnapshot
                        \* when the file holds no complete save
    storeRet,           \* the last PairingStorage call and what it returned
    storeCalls          \* PairingStorage calls the environment may still make

storeVars == <<m_pairings, m_modified, pairingsFile, savedPairings, storeRet,
               storeCalls>>

VARIABLES
    metaName,           \* storeMetadata's argument name, as UTF-8 bytes
    metaPaths,          \* storeMetadata's argument paths
    cardData,           \* the card's data slots, by the P1 of STORE DATA
    metaRead,           \* what getMetadata returned
    metaPc              \* "start", "stored" (storeMetadata returned true),
                        \* "rejected" (it returned false) or "read"

metaVars == <<metaName, metaPaths, cardData, metaRead, metaPc>>

\* ---------------------------------------------------------------------------
\* The wallet-root export of exportRecoverKeys and RecoverAccountFlow::execute
\* ---------------------------------------------------------------------------
MaxVersion == 5                     \* applet versions 0.0 .. MaxVersion.MaxVersion
AppVersions == 0..MaxVersion

VARIABLES
    appVersion,         \* m_appInfo.appVersion of the selected applet
    appVersionMinor,    \* m_appInfo.appVersionMinor
    walletRootExport,   \* the CommandSet call made for PATH_WALLET_ROOT, "-" if none
    recoverPc           \* "idle", "session" (exportRecoverKeys exported the
                        \* wallet root) or "flow" (RecoverAccountFlow did)

recoverVars == <<appVersion, appVersionMinor, walletRootExport, recoverPc>>

\* exportRecoverKeys: bool supportsExtended
supportsExtended(major, minor) ==
    major >= 3 /\ minor >= 1

\* no export is under way in a behaviour of the other specifications
InitRecover(major, minor) ==
    /\ appVersion = major
    /\ appVersionMinor = minor
    /\ walletRootExport = "-"
    /\ recoverPc = "idle"

smVars == <<smRev, sm_state, m_started, m_authorized, m_currentCardUID,
            m_commandSet, m_channel, m_operationMutex, m_appInfo, sm_lastError,
            smThr, bgPending, smQ, card, insertion, connLog, smPaired,
            mutexRecursive, cardPw, cardPinRetries, rescan, chanOps, exportLog,
            crashed, smCalls, noSlotsAt, statusRet, storeVars, metaVars,
            recoverVars>>
DefaultPairingPassword == "KeycardDefaultPairing"
PairingPasswords == {DefaultPairingPassword, "custom"}
CardUid == "u1"                   \* the UID of the card the reader reports

SmIdle == [pc |-> "idle", op |-> "-"]

\* no getStatus has returned yet
NoStatus == [state |-> "-", initialized |-> FALSE, heldBy |-> "-"]

\* the SessionManager as constructed, in revision rev, with m_operationMutex
\* recursive or not
InitSm(rev, recursive) ==
    /\ smRev = rev
    /\ mutexRecursive = recursive
    /\ cardPw = "-"
    /\ cardPinRetries = MaxPinRetries
    /\ rescan = FALSE
    /\ chanOps = <<>>
    /\ exportLog = <<>>
    /\ sm_state = "UnknownReaderState"
    /\ m_started = FALSE
    /\ m_authorized = FALSE
    /\ m_currentCardUID = ""
    /\ m_commandSet = NoCommandSet
    /\ m_channel = FALSE
    /\ m_operationMutex = "free"
    /\ m_appInfo = FALSE
    /\ sm_lastError = ""
    /\ smThr = [t \in SmThreads |-> SmIdle]
    /\ bgPending = 0
    /\ smQ = <<>>
    /\ card = "none"
    /\ insertion = 0
    /\ connLog = <<>>
    /\ smPaired = FALSE
    /\ crashed = 0
    /\ smCalls = [all |-> MaxSmCalls, cards |-> MaxInsertions,
                  retaps |-> MaxRetaps]
    /\ noSlotsAt = 0
    /\ statusRet = NoStatus

\* ---------------------------------------------------------------------------
\* PairingStorage: the map of pairings and its JSON file
\* ---------------------------------------------------------------------------
MaxKeyLen == 2            \* longest pairing key, in bytes
MaxPairingIndex == 1      \* largest pairing slot index
MaxStoreCalls == 4        \* PairingStorage calls of one behaviour

InstanceUids == {"i1", "i2"}
KeyBytes == {10, 171}     \* 0x0a and 0xab
PairingKeys == UNION { [1..n -> KeyBytes] : n \in 0..MaxKeyLen }
PairingIndexes == -1..MaxPairingIndex

\* Keycard::PairingInfo() as default-constructed
NoPairing == [key |-> <<>>, index |-> -1]
PairingInfos == [key : PairingKeys, index : PairingIndexes]

\* Keycard::PairingInfo::isValid
isValid(pairingInfo) == Len(pairingInfo.key) > 0 /\ pairingInfo.index >= 0

HexDigits == <<"0", "1", "2", "3", "4", "5", "6", "7", "8", "9",
               "a", "b", "c", "d", "e", "f">>

\* the value of a hexadecimal digit
hexValue(ch) == (CHOOSE n \in 1..16 : HexDigits[n] = ch) - 1

hexByte_wrong(b) ==
    IF b < 16 THEN <<HexDigits[b + 1]>>
    ELSE <<HexDigits[(b \div 16) + 1], HexDigits[(b % 16) + 1]>>

\* QByteArray::toHex of one byte: two digits, the high nibble first
hexByte(b) == <<HexDigits[(b \div 16) + 1], HexDigits[(b % 16) + 1]>>

RECURSIVE toHex(_)
\* pairingInfo.key.toHex()
toHex(bytes) ==
    IF bytes = <<>> THEN <<>> ELSE hexByte(Head(bytes)) \o toHex(Tail(bytes))

RECURSIVE fromHex(_)
\* QByteArray::fromHex: digits are paired from the end, a leading odd digit
\* is a byte of its own
fromHex(digits) ==
    IF Len(digits) = 0 THEN <<>>
    ELSE IF Len(digits) = 1 THEN <<hexValue(digits[1])>>
    ELSE Append(fromHex(SubSeq(digits, 1, Len(digits) - 2)),
                16 * hexValue(digits[Len(digits) - 1])
                   + hexValue(digits[Len(digits)]))

\* a JSON number as QJsonDocument writes an int
jsonNumber(i) == ToString(i)

\* QJsonValue::toInt of a number read from the file
toInt(text) ==
    IF \E i \in PairingIndexes : ToString(i) = text
    THEN CHOOSE i \in PairingIndexes : ToString(i) = text
    ELSE 0

NoEntry == [index |-> "", key |-> <<>>]
EmptyJson == [uid \in InstanceUids |-> NoEntry]
NoFile == [kind |-> "none", root |-> EmptyJson]
Truncated == [kind |-> "truncated", root |-> EmptyJson]

\* PairingStorage::save: the JSON object built from m_pairings
pairingsJson(pairings) ==
    [uid \in InstanceUids |->
        IF pairings[uid] = NoPairing THEN NoEntry
        ELSE [index |-> jsonNumber(pairings[uid].index),
              key |-> toHex(pairings[uid].key)]]

\* PairingStorage::load: the map read from a JSON object, entries with an
\* empty key skipped
pairingsOfJson(root) ==
    [uid \in InstanceUids |->
        IF root[uid] = NoEntry \/ fromHex(root[uid].key) = <<>> THEN NoPairing
        ELSE [key |-> fromHex(root[uid].key), index |-> toInt(root[uid].index)]]

EmptyPairings == [uid \in InstanceUids |-> NoPairing]
NoSnapshot == [complete |-> FALSE, pairings |-> EmptyPairings]

\* PairingStorage::PairingStorage, no file written yet
InitStore ==
    /\ m_pairings = EmptyPairings
    /\ m_modified = FALSE
    /\ pairingsFile = NoFile
    /\ savedPairings = NoSnapshot
    /\ storeRet = [op |-> "-", ok |-> TRUE]
    /\ storeCalls = MaxStoreCalls

StoreFrame ==
    UNCHANGED <<fsmVars, flowVars, smRev, sm_state, m_started, m_authorized,
                m_currentCardUID, m_commandSet, m_channel, m_operationMutex,
                m_appInfo, sm_lastError, smThr, bgPending, smQ, card,
                insertion, connLog, smPaired, mutexRecursive, cardPw,
                cardPinRetries, rescan, chanOps, exportLog, crashed, smCalls,
                noSlotsAt, statusRet, metaVars, recoverVars>>

StoreCall == storeCalls > 0 /\ storeCalls' = storeCalls - 1

\* PairingStorage::storePairing
storePairing(instanceUID, pairingInfo) ==
    /\ StoreCall
    /\ IF instanceUID = "" \/ ~isValid(pairingInfo)
       THEN /\ storeRet' = [op |-> "store", ok |-> FALSE]
            /\ UNCHANGED <<m_pairings, m_modified>>
       ELSE /\ m_pairings' = [m_pairings EXCEPT ![instanceUID] = pairingInfo]
            /\ m_modified' = TRUE
            /\ storeRet' = [op |-> "store", ok |-> TRUE]
    /\ UNCHANGED <<pairingsFile, savedPairings>>
    /\ StoreFrame

\* PairingStorage::hasPairing
hasPairing(instanceUID) ==
    instanceUID \in InstanceUids /\ m_pairings[instanceUID] # NoPairing

\* PairingStorage::removePairing
removePairing(instanceUID) ==
    /\ StoreCall
    /\ IF ~hasPairing(instanceUID)
       THEN /\ storeRet' = [op |-> "remove", ok |-> FALSE]
            /\ UNCHANGED <<m_pairings, m_modified>>
       ELSE /\ m_pairings' = [m_pairings EXCEPT ![instanceUID] = NoPairing]
            /\ m_modified' = TRUE
            /\ storeRet' = [op |-> "remove", ok |-> TRUE]
    /\ UNCHANGED <<pairingsFile, savedPairings>>
    /\ StoreFrame

\* PairingStorage::save: the file cannot be opened, or is written short, or
\* is written in full
save ==
    /\ StoreCall
    /\ \E outcome \in {"open failed", "short write", "written"} :
         CASE outcome = "open failed" ->
                /\ storeRet' = [op |-> "save", ok |-> FALSE]
                /\ UNCHANGED <<m_modified, pairingsFile, savedPairings>>
           [] outcome = "short write" ->
                /\ pairingsFile' = Truncated
                /\ savedPairings' = NoSnapshot
                /\ storeRet' = [op |-> "save", ok |-> FALSE]
                /\ UNCHANGED m_modified
           [] outcome = "written" ->
                /\ pairingsFile' = [kind |-> "json",
                                    root |-> pairingsJson(m_pairings)]
                /\ savedPairings' = [complete |-> TRUE, pairings |-> m_pairings]
                /\ m_modified' = FALSE
                /\ storeRet' = [op |-> "save", ok |-> TRUE]
    /\ UNCHANGED m_pairings
    /\ StoreFrame

\* the process restarts: a new PairingStorage on the same path, then load()
RestartAndLoad ==
    /\ StoreCall
    /\ IF pairingsFile = NoFile
       THEN /\ m_pairings' = EmptyPairings
            /\ storeRet' = [op |-> "load", ok |-> TRUE]
       ELSE IF pairingsFile = Truncated
       THEN /\ m_pairings' = EmptyPairings
            /\ storeRet' = [op |-> "load", ok |-> FALSE]
       ELSE /\ m_pairings' = pairingsOfJson(pairingsFile.root)
            /\ storeRet' = [op |-> "load", ok |-> TRUE]
    /\ m_modified' = FALSE
    /\ UNCHANGED <<pairingsFile, savedPairings>>
    /\ StoreFrame

\* ---------------------------------------------------------------------------
\* SessionManager::storeMetadata and SessionManager::getMetadata: the bytes
\* written to the card and what is read back from them
\* ---------------------------------------------------------------------------
MaxNameLen == 2           \* longest card name, in bytes
MaxWallets == 2           \* most wallet paths of one storeMetadata

NameBytes == {65, 66}     \* "A", "B"
CardNames == UNION { [1..n -> NameBytes] : n \in 0..MaxNameLen }
WalletIndexes == {0, 1, 2, 129, 300}
PATH_WALLET_ROOT == "m/44'/60'/0'/0"

\* the wallet path with last component n
WalletPath(n) == PATH_WALLET_ROOT \o "/" \o ToString(n)

\* parts.last().toUInt() of a wallet path
pathComponent(path) == CHOOSE n \in WalletIndexes : WalletPath(n) = path

\* the sorted lists of distinct wallet paths a caller passes
SortedPathLists ==
    { paths \in UNION { [1..n -> {WalletPath(i) : i \in WalletIndexes}] :
                        n \in 0..MaxWallets } :
        \A i \in 1..(Len(paths) - 1) :
            pathComponent(paths[i]) < pathComponent(paths[i + 1]) }

\* std::sort of the path components
sortComponents(components) ==
    CHOOSE sorted \in [1..Len(components) -> WalletIndexes] :
        /\ \A n \in WalletIndexes :
              Cardinality({i \in 1..Len(components) : components[i] = n})
                 = Cardinality({i \in 1..Len(components) : sorted[i] = n})
        /\ \A i \in 1..(Len(components) - 1) : sorted[i] <= sorted[i + 1]

RECURSIVE writeLEB128(_)
\* writeLEB128: seven bits per byte, low bits first, 0x80 set on all but the
\* last
writeLEB128(value) ==
    IF value \div 128 # 0
    THEN <<(value % 128) + 128>> \o writeLEB128(value \div 128)
    ELSE <<value % 128>>

RECURSIVE writeRanges(_, _, _, _)
\* storeMetadata of the second revision: the start/count pairs of the runs of
\* consecutive components, from position i on
writeRanges(components, i, start, count) ==
    IF i > Len(components)
    THEN writeLEB128(start) \o writeLEB128(count)
    ELSE IF components[i] = start + count + 1
    THEN writeRanges(components, i + 1, start, count + 1)
    ELSE writeLEB128(start) \o writeLEB128(count)
            \o writeRanges(components, i + 1, components[i], 0)

\* storeMetadata of the second revision: 0x20 | name length, the name, the
\* ranges
encodeMetadataV2(nameBytes, components) ==
    <<32 + Len(nameBytes)>> \o nameBytes
       \o (IF components = <<>> THEN <<>>
           ELSE writeRanges(sortComponents(components), 2,
                            sortComponents(components)[1], 0))

\* storeMetadata of the first revision: one TLV, with a one-byte length
encodeTlv(tag, content) ==
    <<tag>> \o (IF Len(content) < 128 THEN <<Len(content)>>
                ELSE <<129, Len(content) % 256>>) \o content

RECURSIVE bigEndianComponents(_)
\* the path components as 4-byte big-endian integers
bigEndianComponents(components) ==
    IF components = <<>> THEN <<>>
    ELSE LET c == Head(components) IN
         <<(c \div 16777216) % 256, (c \div 65536) % 256,
           (c \div 256) % 256, c % 256>>
            \o bigEndianComponents(Tail(components))

\* storeMetadata of the first revision: 0xA1 { 0x80: name, 0x81: paths }
encodeMetadataV1(nameBytes, components) ==
    encodeTlv(161, encodeTlv(128, nameBytes)
                      \o encodeTlv(129, bigEndianComponents(components)))

RECURSIVE bigEndianValue(_, _, _)
\* the n bytes of data after offset as a big-endian number
bigEndianValue(data, offset, n) ==
    IF n = 0 THEN 0
    ELSE 256 * bigEndianValue(data, offset, n - 1) + data[offset + n]

\* parseTlvLength: the length and the offset after it (offsets count from 0)
parseTlvLength(data, offset) ==
    IF offset >= Len(data) THEN [length |-> 0, offset |-> offset]
    ELSE LET firstByte == data[offset + 1] IN
         IF firstByte < 128 THEN [length |-> firstByte, offset |-> offset + 1]
         ELSE IF firstByte = 128 THEN [length |-> 0, offset |-> offset + 1]
         ELSE IF firstByte - 128 > 4 \/ offset + 1 + (firstByte - 128) > Len(data)
         THEN [length |-> 0, offset |-> offset + 1]
         ELSE [length |-> bigEndianValue(data, offset + 1, firstByte - 128),
               offset |-> offset + 1 + (firstByte - 128)]

RECURSIVE findTlvFrom(_, _, _)
\* findTlvTag's loop from offset on
findTlvFrom(data, offset, targetTag) ==
    IF offset >= Len(data) THEN <<>>
    ELSE LET tag == data[offset + 1]
             len == parseTlvLength(data, offset + 1) IN
         IF len.length = 0 /\ len.offset >= Len(data) THEN <<>>
         ELSE IF len.offset + len.length > Len(data) THEN <<>>
         ELSE IF tag = targetTag
         THEN SubSeq(data, len.offset + 1, len.offset + len.length)
         ELSE findTlvFrom(data, len.offset + len.length, targetTag)

\* findTlvTag
findTlvTag(data, targetTag) == findTlvFrom(data, 0, targetTag)

RECURSIVE walletPaths(_)
\* getMetadata: a wallet path for each 4 bytes of the 0x81 value; the card
\* exports the key of each of them
walletPaths(walletsData) ==
    IF Len(walletsData) < 4 THEN <<>>
    ELSE <<PATH_WALLET_ROOT \o "/" \o ToString(bigEndianValue(walletsData, 0, 4))>>
            \o walletPaths(SubSeq(walletsData, 5, Len(walletsData)))

NoMetadata == [name |-> <<>>, wallets |-> <<>>]

\* getMetadata from the bytes the card returns
decodeMetadata(metadataData) ==
    IF metadataData = <<>> THEN NoMetadata
    ELSE IF findTlvTag(metadataData, 161) = <<>> THEN NoMetadata
    ELSE [name |-> findTlvTag(findTlvTag(metadataData, 161), 128),
          wallets |-> walletPaths(findTlvTag(findTlvTag(metadataData, 161), 129))]

\* the P1 storeMetadata stores with and getMetadata reads with
P1StoreDataPublic == 0
P1StoreDataNDEF == 4
MetadataP1 == IF smRev = 1 THEN P1StoreDataNDEF ELSE P1StoreDataPublic

\* no metadata call is under way in a behaviour of the other specifications
InitMeta(name, paths) ==
    /\ metaName = name
    /\ metaPaths = paths
    /\ cardData = [p1 \in {P1StoreDataPublic, P1StoreDataNDEF} |-> <<>>]
    /\ metaRead = NoMetadata
    /\ metaPc = IF name = <<>> /\ paths = <<>> THEN "idle" ELSE "start"

MetaFrame ==
    UNCHANGED <<fsmVars, flowVars, smRev, sm_state, m_started, m_authorized,
                m_currentCardUID, m_commandSet, m_channel, m_operationMutex,
                m_appInfo, sm_lastError, smThr, bgPending, smQ, card,
                insertion, connLog, smPaired, mutexRecursive, cardPw,
                cardPinRetries, rescan, chanOps, exportLog, crashed, smCalls,
                noSlotsAt, statusRet, storeVars, metaName, metaPaths,
                recoverVars>>

\* SessionManager::storeMetadata(name, paths) of an Authorized session, from
\* the parsing of the paths to storeData
storeMetadata ==
    /\ metaPc = "start"
    /\ LET components == [i \in 1..Len(metaPaths) |-> pathComponent(metaPaths[i])] IN
       IF smRev = 2 /\ Len(metaName) > 20
       THEN /\ metaPc' = "rejected"
            /\ UNCHANGED cardData
       ELSE /\ cardData' = [cardData EXCEPT ![MetadataP1] =
                               IF smRev = 1
                               THEN encodeMetadataV1(metaName, components)
                               ELSE encodeMetadataV2(metaName, components)]
            /\ metaPc' = "stored"
    /\ UNCHANGED metaRead
    /\ MetaFrame

\* SessionManager::getMetadata of the same session, from getData on
getMetadata ==
    /\ metaPc = "stored"
    /\ metaRead' = decodeMetadata(cardData[MetadataP1])
    /\ metaPc' = "read"
    /\ UNCHANGED cardData
    /\ MetaFrame

vars == <<fsmVars, flowVars, smVars>>

NoFlow == [st |-> "none", conn |-> FALSE, m_paused |-> FALSE,
           m_cancelled |-> FALSE, m_shouldRestart |-> FALSE,
           m_params |-> NoParams, hasKeys |-> FALSE, pinRetries |-> -1,
           instanceUID |-> "", initialized |-> FALSE, ty |-> "-",
           results |-> 0, signals |-> 0,
           waitCancelled |-> FALSE]

NoTask == [pc |-> "none", flow |-> 0, action |-> "-", cont |-> "-",
           wfcRet |-> "-", error |-> "-", indexes |-> 0]

IdleThr == [pc |-> "idle", op |-> "-", arg |-> NoParams, ty |-> "-", f |-> 0,
            ret |-> "-", err |-> "", idle |-> FALSE, conc |-> FALSE]

\* thread t back from startFlow: what the caller keeps is the result
Returned(t, op, ret, err) ==
    [IdleThr EXCEPT !.op = op, !.ret = ret, !.err = err, !.conc = thr[t].conc]

InitFlow ==
    /\ m_mutex = "free"
    /\ m_currentFlow = 0
    /\ m_flowFuture = 0
    /\ m_waitingForCard = FALSE
    /\ m_currentCardUid = ""
    /\ m_lastError = ""
    /\ flows = [f \in FlowIds |-> NoFlow]
    /\ tasks = [k \in FlowIds |-> NoTask]
    /\ thr = [t \in Threads |-> IdleThr]
    /\ mainQ = <<>>
    /\ calls = [all |-> MaxCalls, starts |-> MaxStarts, resumes |-> MaxResumes,
                cancels |-> MaxCancels, cards |-> MaxCardEvents]
    /\ connected = FALSE
    /\ paired = FALSE
    /\ apduLog = <<>>
    /\ flowSignal = "-"

\* number of FlowBase objects created so far
nflows == Cardinality({f \in FlowIds : flows[f].st # "none"})

\* QJsonValue::toString() of m_params[key]
ParamString(params, key) == IF params[key] = Absent THEN "" ELSE params[key]

Merge_wrong(old, new) == new

\* FlowBase::resume: for each key of the new params, m_params[key] = value
Merge(old, new) ==
    [k \in Keys |-> IF new[k] # Absent THEN new[k] ELSE old[k]]

\* `emit sig` on flow f from a thread other than the main thread: a queued
\* invocation of the connected FlowManager slot, nothing once disconnected
Emit(q, f, sig, a) ==
    IF flows[f].conn THEN Append(q, [ev |-> sig, a |-> a, f |-> f]) ELSE q

\* a thread is inside FlowManager::startFlow
InStart(t) == thr[t].pc \in {"sf_call", "sf_run", "sf_assign"}

\* ---------------------------------------------------------------------------
\* FlowManager::startFlow
\* ---------------------------------------------------------------------------
\* the application calls startFlow(type, params) on thread t; the record notes
\* whether the engine was Idle and whether another startFlow call that was
\* also made on an Idle engine is still waiting to enter
StartFlowCall(t, ty, params) ==
    /\ thr[t].pc = "idle"
    /\ calls.starts > 0 /\ calls.all > 0
    /\ calls' = [calls EXCEPT !.starts = @ - 1, !.all = @ - 1]
    /\ LET others == {u \in ApiThreads \ {t} :
                        /\ thr[u].pc = "sf_call"
                        /\ thr[u].idle
                        /\ m_state = "Idle"}
       IN thr' = [u \in Threads |->
                    IF u = t
                    THEN [IdleThr EXCEPT !.pc = "sf_call", !.op = "startFlow",
                                         !.arg = params, !.ty = ty,
                                         !.idle = (m_state = "Idle"),
                                         !.conc = (others # {})]
                    ELSE IF u \in others THEN [thr[u] EXCEPT !.conc = TRUE]
                    ELSE thr[u]]
    /\ UNCHANGED <<smVars, fsmVars, m_mutex, m_currentFlow, m_flowFuture,
                   m_waitingForCard, m_currentCardUid, m_lastError, flows,
                   tasks, mainQ, connected, paired, apduLog, flowSignal>>

createFlow_wrong(ty, params) ==
    [NoFlow EXCEPT !.st = "live", !.conn = TRUE, !.m_params = params, !.ty = ty]

\* FlowManager::createFlow: the new FlowBase object, none for an unknown type
createFlow(ty, params) ==
    IF ty \in {"Login", "LoadAccount", "StoreMetadata"}
    THEN [NoFlow EXCEPT !.st = "live", !.conn = TRUE, !.m_params = params,
                        !.ty = ty]
    ELSE NoFlow

flowAlreadyRunning_wrong(s) == FALSE

\* startFlow: the state check made under m_mutex
flowAlreadyRunning(s) == s # "Idle"

\* startFlow from taking m_mutex to releasing it
StartFlowLocked(t) ==
    /\ thr[t].pc = "sf_call"
    /\ m_mutex = "free"
    /\ IF flowAlreadyRunning(m_state)
       THEN /\ m_lastError' = "Flow already running"
            /\ thr' = [thr EXCEPT ![t] = Returned(t, "startFlow", "false",
                                                  "Flow already running")]
            /\ UNCHANGED <<m_state, m_currentFlow, flows>>
       ELSE IF createFlow(thr[t].ty, thr[t].arg).st = "none"
       THEN /\ m_lastError' = "Failed to create flow"
            /\ thr' = [thr EXCEPT ![t] = Returned(t, "startFlow", "false",
                                                  "Failed to create flow")]
            /\ m_currentFlow' = 0
            /\ UNCHANGED <<m_state, flows>>
       ELSE LET f == nflows + 1 IN
            /\ flows' = [flows EXCEPT ![f] = createFlow(thr[t].ty, thr[t].arg)]
            /\ m_currentFlow' = f
            /\ fsmStep("Running")
            /\ thr' = [thr EXCEPT ![t].pc = "sf_run", ![t].f = f]
            /\ UNCHANGED m_lastError
    /\ UNCHANGED <<smVars, lastCall, stateChanged, m_mutex, m_flowFuture, m_waitingForCard,
                   m_currentCardUid, tasks, mainQ, calls, connected, paired,
                   apduLog, flowSignal>>

\* FlowManager::runFlowAsync: QtConcurrent::run hands the task to the pool
RunFlowAsyncSubmit(t) ==
    /\ thr[t].pc = "sf_run"
    /\ tasks' = [tasks EXCEPT ![thr[t].f] = [NoTask EXCEPT !.pc = "queued"]]
    /\ thr' = [thr EXCEPT ![t].pc = "sf_assign"]
    /\ UNCHANGED <<smVars, fsmVars, m_mutex, m_currentFlow, m_flowFuture,
                   m_waitingForCard, m_currentCardUid, m_lastError, flows,
                   mainQ, calls, connected, paired, apduLog, flowSignal>>

\* FlowManager::runFlowAsync: the returned future is stored in m_flowFuture
\* (m_mutex is not held), then startFlow returns true
RunFlowAsyncAssign(t) ==
    /\ thr[t].pc = "sf_assign"
    /\ m_flowFuture' = thr[t].f
    /\ thr' = [thr EXCEPT ![t] = Returned(t, "startFlow", "true", "")]
    /\ UNCHANGED <<smVars, fsmVars, m_mutex, m_currentFlow, m_waitingForCard,
                   m_currentCardUid, m_lastError, flows, tasks, mainQ, calls,
                   connected, paired, apduLog, flowSignal>>

\* ---------------------------------------------------------------------------
\* FlowManager::resumeFlow and FlowBase::resume
\* ---------------------------------------------------------------------------
\* QWaitCondition::wakeAll on flow f: every task waiting in pauseAndWait wakes
WakeAll(tk, f) ==
    [k \in FlowIds |-> IF tk[k].flow = f /\ tk[k].pc = "p_waiting"
                       THEN [tk[k] EXCEPT !.pc = "p_woken"] ELSE tk[k]]

\* FlowBase::m_resumeMutex of flow f is held by a task about to wait
ResumeMutexHeld(f) ==
    \E k \in FlowIds : tasks[k].flow = f /\ tasks[k].pc = "p_checked"

\* another caller is between cancelFlow's unlock and the end of cleanupFlow
CancelInFlight(t) ==
    {u \in ApiThreads \ {t} : thr[u].op = "cancelFlow" /\ thr[u].pc # "idle"}

\* thread t back from resumeFlow or cancelFlow: the caller keeps the result,
\* the flow the call met and whether the other call was in flight
ReturnedFrom(t, op, ret, f, conc) ==
    IF t = "main" THEN IdleThr
    ELSE [IdleThr EXCEPT !.op = op, !.ret = ret, !.f = f, !.conc = conc]

\* resumeFlow: take m_mutex, check the state, transition to Resuming
ResumeFlowEnter(t, params) ==
    /\ m_mutex = "free"
    /\ IF m_state # "Paused"
       THEN /\ m_lastError' = "Flow not paused"
            /\ thr' = [u \in Threads |->
                         IF u = t
                         THEN ReturnedFrom(t, "resumeFlow", "false",
                                           m_currentFlow, CancelInFlight(t) # {})
                         ELSE IF t # "main" /\ u \in CancelInFlight(t)
                         THEN [thr[u] EXCEPT !.conc = TRUE]
                         ELSE thr[u]]
            /\ UNCHANGED <<m_state, m_mutex>>
       ELSE IF m_currentFlow = 0
       THEN /\ m_lastError' = "No flow to resume"
            /\ thr' = [thr EXCEPT ![t] =
                         ReturnedFrom(t, "resumeFlow", "false", 0, FALSE)]
            /\ UNCHANGED <<m_state, m_mutex>>
       ELSE /\ fsmStep("Resuming")
            /\ m_mutex' = t
            /\ thr' = [thr EXCEPT ![t] = [IdleThr EXCEPT !.pc = "rf_resume",
                                            !.op = "resumeFlow", !.arg = params,
                                            !.f = m_currentFlow]]
            /\ UNCHANGED m_lastError
    /\ UNCHANGED <<smVars, lastCall, stateChanged, m_currentFlow, m_flowFuture, m_waitingForCard,
                   m_currentCardUid, flows, tasks, mainQ, connected, paired,
                   apduLog, flowSignal>>

\* the application calls resumeFlow(params) on thread t
ResumeFlow(t, params) ==
    /\ thr[t].pc = "idle"
    /\ calls.resumes > 0 /\ calls.all > 0
    /\ calls' = [calls EXCEPT !.resumes = @ - 1, !.all = @ - 1]
    /\ ResumeFlowEnter(t, params)

\* resumeFlow: m_currentFlow->resume(params), under m_resumeMutex
ResumeFlowResume(t) ==
    /\ thr[t].pc = "rf_resume"
    /\ ~ResumeMutexHeld(thr[t].f)
    /\ flows' = [flows EXCEPT ![thr[t].f].m_params = Merge(@, thr[t].arg),
                              ![thr[t].f].m_paused = FALSE]
    /\ tasks' = WakeAll(tasks, thr[t].f)
    /\ thr' = [thr EXCEPT ![t].pc = "rf_running"]
    /\ UNCHANGED <<smVars, fsmVars, m_mutex, m_currentFlow, m_flowFuture,
                   m_waitingForCard, m_currentCardUid, m_lastError, mainQ,
                   calls, connected, paired, apduLog, flowSignal>>

\* resumeFlow: transition back to Running, release m_mutex, return true
ResumeFlowRunning(t) ==
    /\ thr[t].pc = "rf_running"
    /\ fsmStep("Running")
    /\ m_mutex' = "free"
    /\ thr' = [thr EXCEPT ![t] =
                 ReturnedFrom(t, "resumeFlow", "true", thr[t].f, FALSE)]
    /\ UNCHANGED <<smVars, lastCall, stateChanged, m_currentFlow, m_flowFuture, m_waitingForCard,
                   m_currentCardUid, m_lastError, flows, tasks, mainQ, calls,
                   connected, paired, apduLog, flowSignal>>

\* ---------------------------------------------------------------------------
\* FlowManager::cancelFlow, FlowBase::cancel and FlowManager::cleanupFlow
\* ---------------------------------------------------------------------------
\* flow f is paused waiting for a card: its worker is in the insert-card
\* pause of waitForCard, the engine is Paused and has handed that pause's
\* insert-card signal to the application
WaitingForCard(f) ==
    /\ m_state = "Paused"
    /\ m_waitingForCard
    /\ flowSignal = "insert-card"
    /\ thr["main"].pc = "idle"
    /\ \A i \in 1..Len(mainQ) : mainQ[i].f # f
    /\ \E k \in FlowIds : /\ tasks[k].flow = f
                          /\ tasks[k].action = "insert-card"
                          /\ tasks[k].pc \in {"p_lock", "p_waiting"}

\* cancelFlow from taking m_mutex to releasing it before cleanupFlow; whether
\* the flow was waiting for a card when it was cancelled is noted in it;
\* FlowBase::cancel sets m_cancelled and wakes the worker under m_resumeMutex
CancelFlow(t) ==
    /\ thr[t].pc = "idle"
    /\ calls.cancels > 0 /\ calls.all > 0
    /\ calls' = [calls EXCEPT !.cancels = @ - 1, !.all = @ - 1]
    /\ m_mutex = "free"
    /\ IF m_currentFlow = 0
       THEN /\ thr' = [thr EXCEPT ![t] = IdleThr]
            /\ UNCHANGED <<m_state, m_lastError, flows, tasks>>
       ELSE IF ~canTransition(m_state, "Cancelling")
       THEN /\ m_lastError' = "Failed to transition to Cancelling state"
            /\ thr' = [thr EXCEPT ![t] =
                         ReturnedFrom(t, "cancelFlow", "false",
                                      m_currentFlow, FALSE)]
            /\ UNCHANGED <<m_state, flows, tasks>>
       ELSE /\ ~ResumeMutexHeld(m_currentFlow)
            /\ fsmStep("Cancelling")
            /\ flows' = [flows EXCEPT
                           ![m_currentFlow].m_cancelled = TRUE,
                           ![m_currentFlow].waitCancelled =
                               WaitingForCard(m_currentFlow)]
            /\ tasks' = WakeAll(tasks, m_currentFlow)
            /\ thr' = [thr EXCEPT ![t] =
                         [IdleThr EXCEPT !.pc = "cu_wait", !.op = "cancelFlow",
                                         !.f = m_currentFlow,
                                         !.idle = (m_state \in {"Running", "Paused"})]]
            /\ UNCHANGED m_lastError
    /\ UNCHANGED <<smVars, lastCall, stateChanged, m_mutex, m_currentFlow, m_flowFuture,
                   m_waitingForCard, m_currentCardUid, mainQ, connected, paired,
                   apduLog, flowSignal>>

\* cleanupFlow: m_flowFuture.waitForFinished() when the future is valid and
\* not finished (read without m_mutex)
CleanupWait(t) ==
    /\ thr[t].pc = "cu_wait"
    /\ IF m_flowFuture = 0 THEN TRUE ELSE tasks[m_flowFuture].pc = "done"
    /\ thr' = [thr EXCEPT ![t].pc = "cu_lock"]
    /\ UNCHANGED <<smVars, fsmVars, m_mutex, m_currentFlow, m_flowFuture,
                   m_waitingForCard, m_currentCardUid, m_lastError, flows,
                   tasks, mainQ, calls, connected, paired, apduLog, flowSignal>>

\* cleanupFlow: the part under m_mutex; the caller then returns
CleanupLocked(t) ==
    /\ thr[t].pc = "cu_lock"
    /\ m_mutex = "free"
    /\ m_currentCardUid' = ""
    /\ flows' = IF m_currentFlow # 0
                THEN [flows EXCEPT ![m_currentFlow].conn = FALSE,
                                   ![m_currentFlow].st = "deleted"]
                ELSE flows
    /\ m_currentFlow' = 0
    /\ m_waitingForCard' = FALSE
    /\ fsmReset
    /\ thr' = [thr EXCEPT ![t] =
                 IF thr[t].op = "cancelFlow"
                 THEN ReturnedFrom(t, "cancelFlow", "true", thr[t].f, thr[t].conc)
                 ELSE IdleThr]
    /\ UNCHANGED <<smVars, lastCall, stateChanged, m_mutex, m_flowFuture, m_lastError, tasks, mainQ,
                   calls, connected, paired, apduLog, flowSignal>>

\* ---------------------------------------------------------------------------
\* The worker task of runFlowAsync executing LoginFlow::execute
\* ---------------------------------------------------------------------------
\* what a worker step leaves alone
WorkerFrame ==
    UNCHANGED <<smVars, fsmVars, m_mutex, m_currentFlow, m_flowFuture, m_waitingForCard,
                m_currentCardUid, m_lastError, thr, calls, connected>>

\* the command log of the CommandSet after command a
Log(a) ==
    LET l == Append(apduLog, a)
    IN IF Len(l) <= MaxApduLog THEN l
       ELSE SubSeq(l, Len(l) - MaxApduLog + 1, Len(l))

\* FlowBase::pauseAndWaitWithStatus up to `emit flowPaused(action, event)`;
\* the task continues at cont when the wait is over
PauseEmit(k, action, cont) ==
    /\ mainQ' = Emit(mainQ, tasks[k].flow, "flowPaused", action)
    /\ tasks' = [tasks EXCEPT ![k].pc = "p_lock", ![k].action = action,
                              ![k].cont = cont]

\* a pause whose event carries no error
PauseEmitWithStatus_wrong(k, action, error, n, cont) ==
    /\ mainQ' = Emit(mainQ, tasks[k].flow, "flowPaused", action)
    /\ tasks' = [tasks EXCEPT ![k].pc = "p_lock", ![k].action = action,
                              ![k].cont = cont, ![k].error = "-",
                              ![k].indexes = n]

\* pauseAndWaitWithStatus(action, error, status) up to the emit, with the
\* error and the number of mnemonic indexes of the event
PauseEmitWithStatus(k, action, error, n, cont) ==
    /\ mainQ' = Emit(mainQ, tasks[k].flow, "flowPaused", action)
    /\ tasks' = [tasks EXCEPT ![k].pc = "p_lock", ![k].action = action,
                              ![k].cont = cont, ![k].error = error,
                              ![k].indexes = n]

\* `emit flowError(msg)` followed by execute() returning an error object; of
\* the message only the fact that it comes from the flow is kept
ErrorReturn(k, msg) ==
    /\ mainQ' = Emit(mainQ, tasks[k].flow, "flowError", "flow error")
    /\ tasks' = [tasks EXCEPT ![k].pc = "ret"]

\* where execute() of flow f goes after its first waitForCard(): to the
\* selectKeycard() call of LoginFlow, LoadAccountFlow or StoreMetadataFlow
FirstSelect(f) ==
    CASE flows[f].ty = "LoadAccount" -> "la_select"
      [] flows[f].ty = "StoreMetadata" -> "md_select"
      [] OTHER -> "select"

\* where execute() of flow f goes after openSecureChannelAndAuthenticate():
\* LoginFlow exports its keys, LoadAccountFlow calls requireNoKeys(),
\* StoreMetadataFlow reads the card name of its params
AfterAuthenticate(f) ==
    CASE flows[f].ty = "LoadAccount" -> "la_nokeys"
      [] flows[f].ty = "StoreMetadata" -> "md_name"
      [] OTHER -> "export"

\* the lambda of runFlowAsync starts: reads m_currentFlow under m_mutex
TaskStart(k) ==
    /\ tasks[k].pc = "queued"
    /\ m_mutex = "free"
    /\ tasks' = IF m_currentFlow = 0
                THEN [tasks EXCEPT ![k].pc = "done"]
                ELSE [tasks EXCEPT ![k].pc = "wfc0", ![k].flow = m_currentFlow,
                                   ![k].wfcRet = FirstSelect(m_currentFlow)]
    /\ apduLog' = <<>>
    /\ UNCHANGED <<flows, mainQ, paired, flowSignal>>
    /\ WorkerFrame

\* a signal other than flow-result handed to the application while flow f is
\* being executed or handled; the signals are counted per flow
emitSignal(f, sig) ==
    /\ flowSignal' = sig
    /\ flows' = [flows EXCEPT ![f].signals = @ + 1]

\* FlowBase::waitForCard: first check, check after the 150 ms sleep, and the
\* check after each insert-card pause
WaitForCard(k) ==
    /\ tasks[k].pc \in {"wfc0", "wfc_sleep", "wfc_resumed"}
    /\ IF flows[tasks[k].flow].m_cancelled
       THEN /\ tasks' = [tasks EXCEPT ![k].pc = "ret"]
            /\ UNCHANGED <<flows, mainQ, flowSignal>>
       ELSE IF connected
       THEN /\ tasks' = [tasks EXCEPT ![k].pc = tasks[k].wfcRet]
            /\ IF tasks[k].pc = "wfc_resumed"
               THEN emitSignal(tasks[k].flow, "card-inserted")
               ELSE UNCHANGED <<flows, flowSignal>>
            /\ UNCHANGED mainQ
       ELSE IF tasks[k].pc = "wfc0"
       THEN /\ tasks' = [tasks EXCEPT ![k].pc = "wfc_sleep"]
            /\ UNCHANGED <<flows, mainQ, flowSignal>>
       ELSE /\ PauseEmitWithStatus(k, "insert-card", "connection-error", 0,
                                    "wfc_resumed")
            /\ UNCHANGED <<flows, flowSignal>>
    /\ UNCHANGED <<paired, apduLog>>
    /\ WorkerFrame

InstanceUid == "i1"               \* the instance UID the applet reports

\* FlowBase::selectKeycard followed by FlowBase::requireKeys: SELECT answers
\* "not installed", or an applet without keys, or an applet with keys
SelectKeycard(k) ==
    /\ tasks[k].pc \in {"select", "select2"}
    /\ IF tasks[k].pc = "select" /\ ~connected
       THEN /\ tasks' = [tasks EXCEPT ![k].pc = "wfc0", ![k].wfcRet = "select2"]
            /\ UNCHANGED <<flows, mainQ, apduLog>>
       ELSE /\ apduLog' = Log("SELECT")
            /\ \E answer \in {"notinstalled", "nokeys", "keys"} :
                 CASE answer = "notinstalled" ->
                        /\ ErrorReturn(k, "Keycard applet not installed")
                        /\ UNCHANGED flows
                   [] answer = "keys" ->
                        /\ flows' = [flows EXCEPT ![tasks[k].flow].hasKeys = TRUE,
                                                  ![tasks[k].flow].instanceUID = InstanceUid,
                                                  ![tasks[k].flow].pinRetries = -1]
                        /\ tasks' = [tasks EXCEPT ![k].pc = "auth"]
                        /\ UNCHANGED mainQ
                   [] answer = "nokeys" ->
                        /\ flows' = [flows EXCEPT ![tasks[k].flow].hasKeys = FALSE,
                                                  ![tasks[k].flow].instanceUID = InstanceUid,
                                                  ![tasks[k].flow].pinRetries = -1,
                                                  ![tasks[k].flow].m_shouldRestart = TRUE]
                        /\ PauseEmit(k, "swap-card", "ret")
    /\ UNCHANGED <<paired, flowSignal>>
    /\ WorkerFrame

\* what PAIR with the default password answers: a card that the running flow
\* has just initialized with the default pairing password has free slots and
\* accepts it; of any other card nothing is known
PairAnswers ==
    IF card = "initialized" THEN {"ok"} ELSE {"ok", "noslots", "wrongpw"}

\* FlowBase::openSecureChannelAndAuthenticate: loadPairing, PAIR with the
\* default password when no pairing is stored
Pair(k) ==
    /\ tasks[k].pc = "auth"
    /\ IF paired
       THEN /\ tasks' = [tasks EXCEPT ![k].pc = "open"]
            /\ UNCHANGED <<mainQ, paired, apduLog>>
       ELSE /\ apduLog' = Log("PAIR")
            /\ \E answer \in PairAnswers :
                 CASE answer = "ok" ->
                        /\ paired' = TRUE
                        /\ tasks' = [tasks EXCEPT ![k].pc = "open"]
                        /\ UNCHANGED mainQ
                   [] answer = "noslots" ->
                        /\ ErrorReturn(k, "No available pairing slots")
                        /\ UNCHANGED paired
                   [] answer = "wrongpw" ->
                        /\ PauseEmit(k, "enter-pairing", "pair2")
                        /\ UNCHANGED paired
    /\ UNCHANGED <<flows, flowSignal>>
    /\ WorkerFrame

\* openSecureChannelAndAuthenticate after the enter-pairing pause
PairWithPassword(k) ==
    /\ tasks[k].pc = "pair2"
    /\ LET pw == ParamString(flows[tasks[k].flow].m_params, "pairing-pass") IN
       IF flows[tasks[k].flow].m_cancelled
       THEN /\ tasks' = [tasks EXCEPT ![k].pc = "ret"]
            /\ UNCHANGED <<mainQ, paired, apduLog>>
       ELSE IF pw = ""
       THEN /\ ErrorReturn(k, "No pairing password provided")
            /\ UNCHANGED <<paired, apduLog>>
       ELSE /\ apduLog' = Log("PAIR")
            /\ IF pw = "good"
               THEN /\ paired' = TRUE
                    /\ tasks' = [tasks EXCEPT ![k].pc = "open"]
                    /\ UNCHANGED mainQ
               ELSE /\ ErrorReturn(k, "Pairing failed")
                    /\ UNCHANGED paired
    /\ UNCHANGED <<flows, flowSignal>>
    /\ WorkerFrame

\* openSecureChannelAndAuthenticate: m_commandSet->openSecureChannel(pairing),
\* then straight to verifyPIN()
OpenSecureChannel(k) ==
    /\ tasks[k].pc = "open"
    /\ \E opened \in BOOLEAN :
         IF opened
         THEN /\ apduLog' = Log("OPEN_SECURE_CHANNEL")
              /\ tasks' = [tasks EXCEPT ![k].pc = "vpin"]
              /\ UNCHANGED mainQ
         ELSE /\ apduLog' = Log("OPEN_FAILED")
              /\ ErrorReturn(k, "Failed to open secure channel")
    /\ UNCHANGED <<flows, paired, flowSignal>>
    /\ WorkerFrame

\* FlowBase::verifyPIN: on entry ("vpin"), after the enter-pin pause ("vpin2")
\* and on the recursive call after a wrong-pin pause ("vpin_retry")
VerifyPIN(k) ==
    /\ tasks[k].pc \in {"vpin", "vpin2", "vpin_retry"}
    /\ LET f == tasks[k].flow
           pin == ParamString(flows[f].m_params, "pin") IN
       IF tasks[k].pc # "vpin" /\ flows[f].m_cancelled
       THEN /\ tasks' = [tasks EXCEPT ![k].pc = "ret"]
            /\ UNCHANGED <<flows, mainQ, apduLog>>
       ELSE IF pin = "" /\ tasks[k].pc # "vpin2"
       THEN /\ PauseEmit(k, "enter-pin", "vpin2")
            /\ UNCHANGED <<flows, apduLog>>
       ELSE IF pin = ""
       THEN /\ ErrorReturn(k, "No PIN provided")
            /\ UNCHANGED <<flows, apduLog>>
       ELSE /\ apduLog' = Log("VERIFY_PIN")
            /\ IF pin = "good"
               THEN /\ tasks' = [tasks EXCEPT ![k].pc = AfterAuthenticate(f)]
                    /\ UNCHANGED <<flows, mainQ>>
               ELSE /\ flows' = [flows EXCEPT ![f].pinRetries = @ - 1]
                    /\ IF flows[f].pinRetries - 1 <= 0
                       THEN ErrorReturn(k, "PIN blocked")
                       ELSE PauseEmit(k, "enter-pin", "vpin_retry")
    /\ UNCHANGED <<paired, flowSignal>>
    /\ WorkerFrame

isCancelled_wrong(f) == FALSE

\* FlowBase::isCancelled
isCancelled(f) == flows[f].m_cancelled

WHISPER_PATH == "m/43'/60'/1581'/0'/0"
ENCRYPTION_PATH == "m/43'/60'/1581'/1'/0"

\* LoginFlow::exportKey: makeCurrent is set only for the master path
exportMakeCurrent(path) == path = "m"

\* the EXPORT KEY command for a path, as it is noted in the command log
ExportCommand(path, makeCurrent) ==
    "EXPORT_KEY " \o path \o (IF makeCurrent THEN " makeCurrent" ELSE "")

\* LoginFlow::execute steps 5 and 6: LoginFlow::exportKey for the encryption
\* key, then for the whisper key; exportKey returns at once when cancelled
ExportKeys(k) ==
    /\ tasks[k].pc \in {"export", "export2"}
    /\ LET path == IF tasks[k].pc = "export" THEN ENCRYPTION_PATH
                                             ELSE WHISPER_PATH IN
       IF isCancelled(tasks[k].flow)
       THEN /\ tasks' = [tasks EXCEPT ![k].pc = "ret"]
            /\ UNCHANGED apduLog
       ELSE \E ok \in BOOLEAN :
              /\ apduLog' = Log(ExportCommand(path, exportMakeCurrent(path)))
              /\ tasks' = [tasks EXCEPT ![k].pc =
                             IF ok /\ tasks[k].pc = "export" THEN "export2"
                                                             ELSE "ret"]
    /\ UNCHANGED <<flows, mainQ, paired, flowSignal>>
    /\ WorkerFrame

resetCardInfo_wrong(flow) == flow

\* FlowBase::resetCardInfo: the card snapshot of the flow back to its defaults
resetCardInfo(flow) ==
    [flow EXCEPT !.instanceUID = "", !.hasKeys = FALSE, !.pinRetries = -1,
                 !.initialized = FALSE]

\* runFlowAsync after execute() returned: exit when cancelled, loop when a
\* restart was requested, else emit flowCompleted
ExecuteReturned(k) ==
    /\ tasks[k].pc = "ret"
    /\ LET f == tasks[k].flow IN
       IF isCancelled(f)
       THEN /\ tasks' = [tasks EXCEPT ![k].pc = "done"]
            /\ apduLog' = <<>>
            /\ UNCHANGED <<flows, mainQ>>
       ELSE IF flows[f].m_shouldRestart
       THEN /\ flows' = [flows EXCEPT ![f] =
                           [resetCardInfo(@) EXCEPT !.m_shouldRestart = FALSE]]
            /\ tasks' = [tasks EXCEPT ![k].pc = "wfc0",
                                      ![k].wfcRet = FirstSelect(f)]
            /\ UNCHANGED <<mainQ, apduLog>>
       ELSE /\ mainQ' = Emit(mainQ, f, "flowCompleted", "result")
            /\ tasks' = [tasks EXCEPT ![k].pc = "done"]
            /\ apduLog' = <<>>
            /\ UNCHANGED flows
    /\ UNCHANGED <<paired, flowSignal>>
    /\ WorkerFrame

\* pauseAndWaitWithStatus after the emit: lock m_resumeMutex, m_paused = true,
\* first evaluation of the wait condition
PauseLock(k) ==
    /\ tasks[k].pc = "p_lock"
    /\ ~ResumeMutexHeld(tasks[k].flow)
    /\ flows' = [flows EXCEPT ![tasks[k].flow].m_paused = TRUE]
    /\ tasks' = [tasks EXCEPT ![k].pc = IF flows[tasks[k].flow].m_cancelled
                                        THEN tasks[k].cont ELSE "p_checked"]
    /\ UNCHANGED <<mainQ, paired, apduLog, flowSignal>>
    /\ WorkerFrame

\* m_resumeCondition.wait(&m_resumeMutex): release the mutex and sleep
PauseWait(k) ==
    /\ tasks[k].pc = "p_checked"
    /\ tasks' = [tasks EXCEPT ![k].pc = "p_waiting"]
    /\ UNCHANGED <<flows, mainQ, paired, apduLog, flowSignal>>
    /\ WorkerFrame

\* woken: re-acquire m_resumeMutex and evaluate the wait condition again
PauseWoken(k) ==
    /\ tasks[k].pc = "p_woken"
    /\ ~ResumeMutexHeld(tasks[k].flow)
    /\ tasks' = [tasks EXCEPT ![k].pc =
                   IF flows[tasks[k].flow].m_paused
                      /\ ~flows[tasks[k].flow].m_cancelled
                   THEN "p_checked" ELSE tasks[k].cont]
    /\ UNCHANGED <<flows, mainQ, paired, apduLog, flowSignal>>
    /\ WorkerFrame

\* ---------------------------------------------------------------------------
\* The main thread: FlowManager slots invoked from the event loop
\* ---------------------------------------------------------------------------
MainFrame ==
    UNCHANGED <<smVars, lastCall, stateChanged, m_flowFuture, tasks, calls, connected, paired, apduLog>>

\* FlowManager::onFlowPaused: transition(Paused) without m_mutex; the signal
\* is emitted at once unless the action is insert-card
OnFlowPaused ==
    /\ thr["main"].pc = "idle"
    /\ mainQ # <<>>
    /\ Head(mainQ).ev = "flowPaused"
    /\ mainQ' = Tail(mainQ)
    /\ fsmStep("Paused")
    /\ IF Head(mainQ).a = "insert-card"
       THEN /\ thr' = [thr EXCEPT !["main"] = [IdleThr EXCEPT !.pc = "fp_wait",
                                                 !.op = "onFlowPaused",
                                                 !.f = Head(mainQ).f]]
            /\ UNCHANGED <<flows, flowSignal>>
       ELSE /\ emitSignal(Head(mainQ).f, Head(mainQ).a)
            /\ UNCHANGED thr
    /\ UNCHANGED <<m_mutex, m_currentFlow, m_waitingForCard, m_currentCardUid,
                   m_lastError>>
    /\ MainFrame

\* onFlowPaused for insert-card: m_waitingForCard = true under m_mutex, then
\* emit flowSignal
OnFlowPausedInsertCard ==
    /\ thr["main"].pc = "fp_wait"
    /\ m_mutex = "free"
    /\ m_waitingForCard' = TRUE
    /\ emitSignal(thr["main"].f, "insert-card")
    /\ thr' = [thr EXCEPT !["main"] = IdleThr]
    /\ UNCHANGED <<m_state, m_mutex, m_currentFlow,
                   m_currentCardUid, m_lastError, mainQ>>
    /\ MainFrame

\* FlowSignals::emitFlowResult for the flow whose signal is being handled: the
\* flow-result signals handed to the application are counted per flow
emitFlowResult(f) ==
    /\ flowSignal' = "flow-result"
    /\ flows' = [flows EXCEPT ![f].results = @ + 1, ![f].signals = @ + 1]

\* FlowManager::onFlowCompleted up to the call of cleanupFlow
OnFlowCompleted ==
    /\ thr["main"].pc = "idle"
    /\ mainQ # <<>>
    /\ Head(mainQ).ev = "flowCompleted"
    /\ mainQ' = Tail(mainQ)
    /\ emitFlowResult(Head(mainQ).f)
    /\ thr' = [thr EXCEPT !["main"] = [IdleThr EXCEPT !.pc = "cu_wait",
                                         !.op = "onFlowCompleted"]]
    /\ UNCHANGED <<m_state, m_mutex, m_currentFlow,
                   m_waitingForCard, m_currentCardUid, m_lastError>>
    /\ MainFrame

\* FlowManager::onFlowError up to the call of cleanupFlow
OnFlowError ==
    /\ thr["main"].pc = "idle"
    /\ mainQ # <<>>
    /\ Head(mainQ).ev = "flowError"
    /\ m_mutex = "free"
    /\ mainQ' = Tail(mainQ)
    /\ m_lastError' = Head(mainQ).a
    /\ emitFlowResult(Head(mainQ).f)
    /\ thr' = [thr EXCEPT !["main"] = [IdleThr EXCEPT !.pc = "cu_wait",
                                         !.op = "onFlowError"]]
    /\ UNCHANGED <<m_state, m_mutex, m_currentFlow,
                   m_waitingForCard, m_currentCardUid>>
    /\ MainFrame

\* FlowManager::onCardDetected(uid)
OnCardDetected ==
    /\ thr["main"].pc = "idle"
    /\ mainQ # <<>>
    /\ Head(mainQ).ev = "targetDetected"
    /\ m_mutex = "free"
    /\ mainQ' = Tail(mainQ)
    /\ IF m_currentCardUid = Head(mainQ).a
       THEN UNCHANGED <<m_currentCardUid, m_waitingForCard, thr>>
       ELSE /\ m_currentCardUid' = Head(mainQ).a
            /\ IF m_waitingForCard /\ m_currentFlow # 0
               THEN /\ m_waitingForCard' = FALSE
                    /\ thr' = IF m_state = "Paused"
                              THEN [thr EXCEPT !["main"] =
                                      [IdleThr EXCEPT !.pc = "rf_call",
                                                      !.op = "onCardDetected"]]
                              ELSE thr
               ELSE UNCHANGED <<m_waitingForCard, thr>>
    /\ UNCHANGED <<m_state, m_mutex, m_currentFlow, m_lastError,
                   flows, flowSignal>>
    /\ MainFrame

\* onCardDetected calling resumeFlow(QJsonObject()) after releasing m_mutex
OnCardDetectedResume ==
    /\ thr["main"].pc = "rf_call"
    /\ ResumeFlowEnter("main", NoParams)
    /\ UNCHANGED calls

\* FlowManager::onCardRemoved
OnCardRemoved ==
    /\ thr["main"].pc = "idle"
    /\ mainQ # <<>>
    /\ Head(mainQ).ev = "targetLost"
    /\ m_mutex = "free"
    /\ mainQ' = Tail(mainQ)
    /\ m_currentCardUid' = ""
    /\ m_waitingForCard' = IF m_state = "Running" /\ m_currentFlow # 0
                           THEN TRUE ELSE m_waitingForCard
    /\ UNCHANGED <<m_state, m_mutex, m_currentFlow, m_lastError,
                   flows, thr, flowSignal>>
    /\ MainFrame

\* ---------------------------------------------------------------------------
\* The card reader: KeycardChannel detects a card or loses it
\* ---------------------------------------------------------------------------
CardInserted ==
    /\ ~connected
    /\ calls.cards > 0 /\ calls.all > 0
    /\ calls' = [calls EXCEPT !.cards = @ - 1, !.all = @ - 1]
    /\ connected' = TRUE
    /\ mainQ' = Append(mainQ, [ev |-> "targetDetected", a |-> "uid1", f |-> 0])
    /\ UNCHANGED <<smVars, fsmVars, m_mutex, m_currentFlow, m_flowFuture,
                   m_waitingForCard, m_currentCardUid, m_lastError, flows,
                   tasks, thr, paired, apduLog, flowSignal>>

CardRemoved ==
    /\ connected
    /\ calls.cards > 0 /\ calls.all > 0
    /\ calls' = [calls EXCEPT !.cards = @ - 1, !.all = @ - 1]
    /\ connected' = FALSE
    /\ mainQ' = Append(mainQ, [ev |-> "targetLost", a |-> "", f |-> 0])
    /\ UNCHANGED <<smVars, fsmVars, m_mutex, m_currentFlow, m_flowFuture,
                   m_waitingForCard, m_currentCardUid, m_lastError, flows,
                   tasks, thr, paired, apduLog, flowSignal>>

InitFlowSpec ==
    InitFsm /\ InitFlow /\ InitSm(0, FALSE) /\ InitStore /\ InitMeta(<<>>, <<>>) /\ InitRecover(0, 0)

NextFlow ==
    \/ \E t \in ApiThreads, c \in StartCalls : StartFlowCall(t, c[1], c[2])
    \/ \E t \in ApiThreads : StartFlowLocked(t)
    \/ \E t \in ApiThreads : RunFlowAsyncSubmit(t)
    \/ \E t \in ApiThreads : RunFlowAsyncAssign(t)
    \/ \E t \in Controllers, p \in ResumeInputs : ResumeFlow(t, p)
    \/ \E t \in Threads : ResumeFlowResume(t)
    \/ \E t \in Threads : ResumeFlowRunning(t)
    \/ \E t \in ApiThreads : CancelFlow(t)
    \/ \E t \in Threads : CleanupWait(t)
    \/ \E t \in Threads : CleanupLocked(t)
    \/ \E k \in FlowIds : TaskStart(k)
    \/ \E k \in FlowIds : WaitForCard(k)
    \/ \E k \in FlowIds : SelectKeycard(k)
    \/ \E k \in FlowIds : Pair(k)
    \/ \E k \in FlowIds : PairWithPassword(k)
    \/ \E k \in FlowIds : OpenSecureChannel(k)
    \/ \E k \in FlowIds : VerifyPIN(k)
    \/ \E k \in FlowIds : ExportKeys(k)
    \/ \E k \in FlowIds : ExecuteReturned(k)
    \/ \E k \in FlowIds : PauseLock(k)
    \/ \E k \in FlowIds : PauseWait(k)
    \/ \E k \in FlowIds : PauseWoken(k)
    \/ OnFlowPaused
    \/ OnFlowPausedInsertCard
    \/ OnFlowCompleted
    \/ OnFlowError
    \/ OnCardDetected
    \/ OnCardDetectedResume
    \/ OnCardRemoved
    \/ CardInserted
    \/ CardRemoved

\* FlowManager with its worker tasks, event loop, callers and card reader
SpecFlow == InitFlowSpec /\ [][NextFlow]_vars

\* the engine after init() when a card already lies on the reader and its
\* targetDetected has been handled by onCardDetected
InitCardPresent ==
    /\ InitFsm /\ InitSm(0, FALSE) /\ InitStore /\ InitMeta(<<>>, <<>>)
    /\ InitRecover(0, 0)
    /\ m_mutex = "free"
    /\ m_currentFlow = 0
    /\ m_flowFuture = 0
    /\ m_waitingForCard = FALSE
    /\ m_currentCardUid = "uid1"
    /\ m_lastError = ""
    /\ flows = [f \in FlowIds |-> NoFlow]
    /\ tasks = [k \in FlowIds |-> NoTask]
    /\ thr = [t \in Threads |-> IdleThr]
    /\ mainQ = <<>>
    /\ calls = [all |-> MaxCalls, starts |-> MaxStarts, resumes |-> MaxResumes,
                cancels |-> MaxCancels, cards |-> MaxCardEvents]
    /\ connected = TRUE
    /\ paired = FALSE
    /\ apduLog = <<>>
    /\ flowSignal = "-"

\* one caller starts flows, the other resumes and cancels them
NextFlowCardPresent ==
    \/ \E c \in StartCalls : StartFlowCall("t1", c[1], c[2])
    \/ StartFlowLocked("t1")
    \/ RunFlowAsyncSubmit("t1")
    \/ RunFlowAsyncAssign("t1")
    \/ \E p \in ResumeInputs : ResumeFlow("t2", p)
    \/ \E t \in Threads : ResumeFlowResume(t)
    \/ \E t \in Threads : ResumeFlowRunning(t)
    \/ CancelFlow("t2")
    \/ \E t \in Threads : CleanupWait(t)
    \/ \E t \in Threads : CleanupLocked(t)
    \/ \E k \in FlowIds : TaskStart(k)
    \/ \E k \in FlowIds : WaitForCard(k)
    \/ \E k \in FlowIds : SelectKeycard(k)
    \/ \E k \in FlowIds : Pair(k)
    \/ \E k \in FlowIds : PairWithPassword(k)
    \/ \E k \in FlowIds : OpenSecureChannel(k)
    \/ \E k \in FlowIds : VerifyPIN(k)
    \/ \E k \in FlowIds : ExportKeys(k)
    \/ \E k \in FlowIds : ExecuteReturned(k)
    \/ \E k \in FlowIds : PauseLock(k)
    \/ \E k \in FlowIds : PauseWait(k)
    \/ \E k \in FlowIds : PauseWoken(k)
    \/ OnFlowPaused
    \/ OnFlowPausedInsertCard
    \/ OnFlowCompleted
    \/ OnFlowError
    \/ OnCardDetected
    \/ OnCardDetectedResume
    \/ OnCardRemoved
    \/ CardInserted
    \/ CardRemoved

\* the engine started with the card present
SpecFlowCardPresent == InitCardPresent /\ [][NextFlowCardPresent]_vars

InitPairingStorage ==
    InitFsm /\ InitFlow /\ InitSm(0, FALSE) /\ InitStore /\ InitMeta(<<>>, <<>>) /\ InitRecover(0, 0)

NextPairingStorage ==
    \/ \E uid \in InstanceUids \cup {""}, info \in PairingInfos :
          storePairing(uid, info)
    \/ \E uid \in InstanceUids : removePairing(uid)
    \/ save
    \/ RestartAndLoad

\* a PairingStorage, its file, and the process restarting
SpecPairingStorage == InitPairingStorage /\ [][NextPairingStorage]_vars

\* storeMetadata and then getMetadata, in either revision, for every card
\* name and every sorted list of wallet paths
InitMetadata ==
    /\ InitFsm /\ InitFlow /\ InitStore
    /\ \E rev \in {1, 2} : InitSm(rev, FALSE)
    /\ \E name \in CardNames, paths \in SortedPathLists : InitMeta(name, paths)
    /\ InitRecover(0, 0)

NextMetadata ==
    \/ storeMetadata
    \/ getMetadata

SpecMetadata == InitMetadata /\ [][NextMetadata]_vars

\* ---------------------------------------------------------------------------
\* Exporting the wallet-root key for account recovery
\* ---------------------------------------------------------------------------
RecoverFrame ==
    UNCHANGED <<fsmVars, flowVars, smRev, sm_state, m_started, m_authorized,
                m_currentCardUID, m_commandSet, m_channel, m_operationMutex,
                m_appInfo, sm_lastError, smThr, bgPending, smQ, card,
                insertion, connLog, smPaired, mutexRecursive, cardPw,
                cardPinRetries, rescan, chanOps, exportLog, crashed, smCalls,
                noSlotsAt, statusRet, storeVars, metaVars>>

\* SessionManager::exportRecoverKeys of an Authorized session, at the export
\* of PATH_WALLET_ROOT (the same lines in both revisions)
exportRecoverKeys ==
    /\ recoverPc = "idle"
    /\ walletRootExport' = IF supportsExtended(appVersion, appVersionMinor)
                           THEN "exportKeyExtended" ELSE "exportKey"
    /\ recoverPc' = "session"
    /\ UNCHANGED <<appVersion, appVersionMinor>>
    /\ RecoverFrame

\* RecoverAccountFlow::execute, step 8: exportKey(WALLET_ROOT_PATH, false)
RecoverAccountFlowExport ==
    /\ recoverPc = "idle"
    /\ walletRootExport' = "exportKey"
    /\ recoverPc' = "flow"
    /\ UNCHANGED <<appVersion, appVersionMinor>>
    /\ RecoverFrame

\* exportRecoverKeys and RecoverAccountFlow on a card of every applet version
InitRecoverKeys ==
    /\ InitFsm /\ InitFlow /\ InitStore /\ InitMeta(<<>>, <<>>)
    /\ \E rev \in {1, 2} : InitSm(rev, FALSE)
    /\ \E major, minor \in AppVersions : InitRecover(major, minor)

NextRecoverKeys ==
    \/ exportRecoverKeys
    \/ RecoverAccountFlowExport

SpecRecoverKeys == InitRecoverKeys /\ [][NextRecoverKeys]_vars

\* ---------------------------------------------------------------------------
\* The worker task executing LoadAccountFlow::execute, on a card that is on
\* the reader pre-initialized ("empty") or initialized
\* ---------------------------------------------------------------------------
\* startFlow(LoadAccount, {mnemonic-length: 12, new-pin, new-puk})
LoadAccountParams ==
    [NoParams EXCEPT !["mnemonic-length"] = "12", !["new-pin"] = "000000",
                     !["new-puk"] = "123456123456"]

\* what the application resumes a LoadAccount flow with
LoadAccountResumes ==
    { LoadAccountParams,
      [NoParams EXCEPT !["pin"] = "good"],
      [NoParams EXCEPT !["mnemonic"] = "abandon about"] }

\* params()[FlowParams::MNEMONIC_LEN].toInt(), 12 when the key is missing
mnemonicLength(params) ==
    IF params["mnemonic-length"] = Absent THEN 12
    ELSE IF params["mnemonic-length"] = "12" THEN 12
    ELSE IF params["mnemonic-length"] = "24" THEN 24
    ELSE 0

\* CommandSet::generateMnemonic(checksumSize): three word indexes per unit
generateMnemonic(checksumSize) == 3 * checksumSize

\* the session variables a flow step leaves alone when it acts on the card
LoadAccountFrame ==
    UNCHANGED <<fsmVars, m_mutex, m_currentFlow, m_flowFuture, m_waitingForCard,
                m_currentCardUid, m_lastError, thr, calls, paired, flowSignal,
                smRev, sm_state, m_started, m_authorized, m_currentCardUID,
                m_commandSet, m_channel, m_operationMutex, m_appInfo,
                sm_lastError, smThr, bgPending, smQ, insertion, connLog,
                smPaired, mutexRecursive, cardPw, cardPinRetries, chanOps,
                exportLog, crashed, smCalls, noSlotsAt, statusRet, storeVars, metaVars,
            recoverVars>>

\* LoadAccountFlow::execute: selectKeycard() before ("la_select") and after
\* ("la_reselect") the initialization, then the check of cardInfo().initialized
LoadAccountSelect(k) ==
    /\ tasks[k].pc \in {"la_select", "la_select2", "la_reselect", "la_reselect2"}
    /\ LET f == tasks[k].flow
           first == tasks[k].pc \in {"la_select", "la_select2"} IN
       IF tasks[k].pc \in {"la_select", "la_reselect"} /\ ~connected
       THEN /\ tasks' = [tasks EXCEPT ![k].pc = "wfc0",
                                      ![k].wfcRet = IF first THEN "la_select2"
                                                    ELSE "la_reselect2"]
            /\ UNCHANGED <<flows, mainQ, apduLog>>
       ELSE /\ apduLog' = Log("SELECT")
            /\ IF ~connected \/ card = "none"
               THEN /\ ErrorReturn(k, "Keycard applet not installed")
                    /\ UNCHANGED flows
               ELSE /\ flows' = [flows EXCEPT
                                   ![f].instanceUID = InstanceUid,
                                   ![f].hasKeys = FALSE,
                                   ![f].pinRetries = -1,
                                   ![f].initialized = (card = "initialized")]
                    /\ IF first /\ card # "initialized"
                       THEN PauseEmitWithStatus(k, "enter-new-pin",
                                                "require-init", 0, "la_init")
                       ELSE /\ tasks' = [tasks EXCEPT ![k].pc = "auth"]
                            /\ UNCHANGED mainQ
    /\ UNCHANGED <<connected, card, rescan>>
    /\ LoadAccountFrame

\* LoadAccountFlow::execute after the require-init pause: init(secrets), then
\* channel()->disconnect() and channel()->forceScan(), then waitForCard()
LoadAccountInit(k) ==
    /\ tasks[k].pc = "la_init"
    /\ LET f == tasks[k].flow
           pin == ParamString(flows[f].m_params, "new-pin")
           puk == ParamString(flows[f].m_params, "new-puk") IN
       IF isCancelled(f) \/ pin = "" \/ puk = ""
       THEN /\ tasks' = [tasks EXCEPT ![k].pc = "ret"]
            /\ UNCHANGED <<apduLog, connected, card, rescan>>
       ELSE /\ apduLog' = Log("INIT")
            /\ IF connected /\ card = "empty"
               THEN /\ card' = "initialized"
                    /\ connected' = FALSE
                    /\ rescan' = TRUE
                    /\ tasks' = [tasks EXCEPT ![k].pc = "wfc0",
                                              ![k].wfcRet = "la_reselect"]
               ELSE /\ tasks' = [tasks EXCEPT ![k].pc = "ret"]
                    /\ UNCHANGED <<connected, card, rescan>>
    /\ UNCHANGED <<flows, mainQ>>
    /\ LoadAccountFrame

\* LoadAccountFlow::execute after authentication: requireNoKeys(), then either
\* the mnemonic of the params or generateMnemonic(length / 3) and the
\* enter-mnemonic pause
LoadAccountMnemonic(k) ==
    /\ tasks[k].pc = "la_nokeys"
    /\ LET f == tasks[k].flow IN
       IF flows[f].hasKeys
       THEN /\ flows' = [flows EXCEPT ![f].m_shouldRestart = TRUE]
            /\ PauseEmitWithStatus(k, "swap-card", "has-keys", 0, "ret")
            /\ UNCHANGED apduLog
       ELSE IF ParamString(flows[f].m_params, "mnemonic") # ""
       THEN /\ tasks' = [tasks EXCEPT ![k].pc = "la_load"]
            /\ UNCHANGED <<flows, mainQ, apduLog>>
       ELSE /\ apduLog' = Log("GENERATE_MNEMONIC")
            /\ UNCHANGED flows
            /\ \E ok \in BOOLEAN :
                 IF ok /\ connected
                 THEN PauseEmitWithStatus(
                          k, "enter-mnemonic", "loading-keys",
                          generateMnemonic(mnemonicLength(flows[f].m_params) \div 3),
                          "la_loadp")
                 ELSE /\ tasks' = [tasks EXCEPT ![k].pc = "ret"]
                      /\ UNCHANGED mainQ
    /\ UNCHANGED <<connected, card, rescan>>
    /\ LoadAccountFrame

\* LoadAccountFlow::execute: mnemonicToSeed and loadSeed, straight on
\* ("la_load") or after the enter-mnemonic pause ("la_loadp")
LoadAccountLoadSeed(k) ==
    /\ tasks[k].pc \in {"la_load", "la_loadp"}
    /\ LET f == tasks[k].flow IN
       IF tasks[k].pc = "la_loadp" /\ isCancelled(f)
       THEN /\ UNCHANGED <<flows, apduLog>>
       ELSE /\ apduLog' = Log("LOAD_SEED")
            /\ flows' = [flows EXCEPT ![f].hasKeys = connected]
    /\ tasks' = [tasks EXCEPT ![k].pc = "ret"]
    /\ UNCHANGED <<mainQ, connected, card, rescan>>
    /\ LoadAccountFrame

\* the reader: a pre-initialized card is put on it
PreInitializedCardInserted ==
    /\ ~connected /\ card = "none"
    /\ calls.cards > 0
    /\ calls' = [calls EXCEPT !.cards = @ - 1]
    /\ card' = "empty"
    /\ connected' = TRUE
    /\ mainQ' = Append(mainQ, [ev |-> "targetDetected", a |-> "uid1", f |-> 0])
    /\ UNCHANGED <<fsmVars, m_mutex, m_currentFlow, m_flowFuture,
                   m_waitingForCard, m_currentCardUid, m_lastError, flows,
                   tasks, thr, paired, apduLog, flowSignal, rescan>>
    /\ UNCHANGED <<smRev, sm_state, m_started, m_authorized, m_currentCardUID,
                   m_commandSet, m_channel, m_operationMutex, m_appInfo,
                   sm_lastError, smThr, bgPending, smQ, insertion, connLog,
                   smPaired, mutexRecursive, cardPw, cardPinRetries, chanOps,
                   exportLog, crashed, smCalls, noSlotsAt, statusRet, storeVars, metaVars,
            recoverVars>>

\* the channel after forceScan(): the card on the reader is detected again
CardRedetected ==
    /\ rescan /\ ~connected
    /\ rescan' = FALSE
    /\ connected' = TRUE
    /\ mainQ' = Append(mainQ, [ev |-> "targetDetected", a |-> "uid1", f |-> 0])
    /\ UNCHANGED <<fsmVars, m_mutex, m_currentFlow, m_flowFuture,
                   m_waitingForCard, m_currentCardUid, m_lastError, flows,
                   tasks, thr, calls, paired, apduLog, flowSignal, card>>
    /\ UNCHANGED <<smRev, sm_state, m_started, m_authorized, m_currentCardUID,
                   m_commandSet, m_channel, m_operationMutex, m_appInfo,
                   sm_lastError, smThr, bgPending, smQ, insertion, connLog,
                   smPaired, mutexRecursive, cardPw, cardPinRetries, chanOps,
                   exportLog, crashed, smCalls, noSlotsAt, statusRet, storeVars, metaVars,
            recoverVars>>

NextLoadAccount ==
    \/ StartFlowCall("t1", "LoadAccount", LoadAccountParams)
    \/ StartFlowLocked("t1")
    \/ RunFlowAsyncSubmit("t1")
    \/ RunFlowAsyncAssign("t1")
    \/ \E p \in LoadAccountResumes : ResumeFlow("t2", p)
    \/ \E t \in Threads : ResumeFlowResume(t)
    \/ \E t \in Threads : ResumeFlowRunning(t)
    \/ \E t \in Threads : CleanupWait(t)
    \/ \E t \in Threads : CleanupLocked(t)
    \/ \E k \in FlowIds : TaskStart(k)
    \/ \E k \in FlowIds : WaitForCard(k)
    \/ \E k \in FlowIds : LoadAccountSelect(k)
    \/ \E k \in FlowIds : LoadAccountInit(k)
    \/ \E k \in FlowIds : Pair(k)
    \/ \E k \in FlowIds : OpenSecureChannel(k)
    \/ \E k \in FlowIds : VerifyPIN(k)
    \/ \E k \in FlowIds : LoadAccountMnemonic(k)
    \/ \E k \in FlowIds : LoadAccountLoadSeed(k)
    \/ \E k \in FlowIds : ExecuteReturned(k)
    \/ \E k \in FlowIds : PauseLock(k)
    \/ \E k \in FlowIds : PauseWait(k)
    \/ \E k \in FlowIds : PauseWoken(k)
    \/ OnFlowPaused
    \/ OnFlowPausedInsertCard
    \/ OnFlowCompleted
    \/ OnFlowError
    \/ OnCardDetected
    \/ OnCardDetectedResume
    \/ PreInitializedCardInserted
    \/ CardRedetected

\* the flow engine running LoadAccount flows on a pre-initialized card
SpecLoadAccount == InitFlowSpec /\ [][NextLoadAccount]_vars

\* ---------------------------------------------------------------------------
\* StoreMetadataFlow::execute
\* ---------------------------------------------------------------------------
\* startFlow(StoreMetadata, params): with the PIN, with or without a card name
StoreMetadataParams ==
    { [NoParams EXCEPT !["pin"] = "good"],
      [NoParams EXCEPT !["pin"] = "good", !["card-name"] = "A"] }

\* what the application resumes a StoreMetadata flow with
StoreMetadataResumes ==
    { [NoParams EXCEPT !["card-name"] = "A"] }

\* StoreMetadataFlow::execute: selectKeycard(), straight on ("md_select") or
\* after its own waitForCard() ("md_select2")
StoreMetadataSelect(k) ==
    /\ tasks[k].pc \in {"md_select", "md_select2"}
    /\ IF tasks[k].pc = "md_select" /\ ~connected
       THEN /\ tasks' = [tasks EXCEPT ![k].pc = "wfc0", ![k].wfcRet = "md_select2"]
            /\ UNCHANGED <<flows, mainQ, apduLog>>
       ELSE /\ apduLog' = Log("SELECT")
            /\ \E installed \in BOOLEAN :
                 IF ~installed
                 THEN /\ ErrorReturn(k, "Keycard applet not installed")
                      /\ UNCHANGED flows
                 ELSE /\ flows' = [flows EXCEPT
                                     ![tasks[k].flow].instanceUID = InstanceUid,
                                     ![tasks[k].flow].pinRetries = -1]
                      /\ tasks' = [tasks EXCEPT ![k].pc = "auth"]
                      /\ UNCHANGED mainQ
    /\ UNCHANGED <<paired, flowSignal>>
    /\ WorkerFrame

\* StoreMetadataFlow::execute after authentication: the card name of the
\* params, the enter-cardname pause when it is empty ("md_name"), and after
\* the pause ("md_named") the return of buildCardInfoJson(); no command is
\* sent to the card
StoreMetadataName(k) ==
    /\ tasks[k].pc \in {"md_name", "md_named"}
    /\ LET f == tasks[k].flow
           cardName == ParamString(flows[f].m_params, "card-name") IN
       IF tasks[k].pc = "md_name" /\ cardName = ""
       THEN PauseEmit(k, "enter-cardname", "md_named")
       ELSE /\ tasks' = [tasks EXCEPT ![k].pc = "ret",
                                      ![k].action =
                                          IF tasks[k].pc = "md_named" /\ isCancelled(f)
                                          THEN "cancelled" ELSE "card-info"]
            /\ UNCHANGED mainQ
    /\ UNCHANGED <<flows, paired, apduLog, flowSignal>>
    /\ WorkerFrame

NextStoreMetadataFlow ==
    \/ \E p \in StoreMetadataParams : StartFlowCall("t1", "StoreMetadata", p)
    \/ StartFlowLocked("t1")
    \/ RunFlowAsyncSubmit("t1")
    \/ RunFlowAsyncAssign("t1")
    \/ \E p \in StoreMetadataResumes : ResumeFlow("t2", p)
    \/ \E t \in Threads : ResumeFlowResume(t)
    \/ \E t \in Threads : ResumeFlowRunning(t)
    \/ CancelFlow("t2")
    \/ \E t \in Threads : CleanupWait(t)
    \/ \E t \in Threads : CleanupLocked(t)
    \/ \E k \in FlowIds : TaskStart(k)
    \/ \E k \in FlowIds : WaitForCard(k)
    \/ \E k \in FlowIds : StoreMetadataSelect(k)
    \/ \E k \in FlowIds : Pair(k)
    \/ \E k \in FlowIds : OpenSecureChannel(k)
    \/ \E k \in FlowIds : VerifyPIN(k)
    \/ \E k \in FlowIds : StoreMetadataName(k)
    \/ \E k \in FlowIds : ExecuteReturned(k)
    \/ \E k \in FlowIds : PauseLock(k)
    \/ \E k \in FlowIds : PauseWait(k)
    \/ \E k \in FlowIds : PauseWoken(k)
    \/ OnFlowPaused
    \/ OnFlowPausedInsertCard
    \/ OnFlowCompleted
    \/ OnFlowError
    \/ OnCardDetected
    \/ OnCardDetectedResume
    \/ CardInserted

\* the flow engine running StoreMetadata flows
SpecStoreMetadataFlow == InitFlowSpec /\ [][NextStoreMetadataFlow]_vars

\* ---------------------------------------------------------------------------
\* SessionManager: operations
\* ---------------------------------------------------------------------------
\* what a SessionManager step leaves alone
SmFrame == UNCHANGED <<fsmVars, flowVars, storeVars, metaVars, recoverVars, noSlotsAt, statusRet, smRev, mutexRecursive, crashed>>

\* the same for a step that calls through m_commandSet
SmFrameCall == UNCHANGED <<fsmVars, flowVars, storeVars, metaVars, recoverVars, noSlotsAt, statusRet, smRev, mutexRecursive>>

\* m_commandSet-> on a reset pointer: the call never returns
Crash(t) ==
    /\ crashed' = m_commandSet
    /\ smThr' = [smThr EXCEPT ![t].pc = "crashed"]
    /\ UNCHANGED <<sm_state, m_started, m_authorized, m_currentCardUID,
                   m_commandSet, m_channel, m_operationMutex, m_appInfo,
                   sm_lastError, bgPending, smQ, card, insertion, connLog,
                   smPaired, smCalls, cardPw, cardPinRetries, rescan, chanOps,
                   exportLog>>

\* the card answers a command
CardAnswers == card # "none"

\* the process is running; thread t is ready to run a call or a handler
SmReady(t) == crashed = 0 /\ smRev \in {1, 2} /\ smThr[t].pc = "idle"

\* thread t is at position pc of a call
SmAt(t, pc) == crashed = 0 /\ smThr[t].pc = pc

\* one more call or reader event
SmCall == smCalls.all > 0 /\ smCalls' = [smCalls EXCEPT !.all = @ - 1]

\* SessionManager::setError (the messages of the card are one message)
setError(msg) == sm_lastError' = msg

alreadyStarted_wrong(started) == FALSE

\* SessionManager::start: the check of m_started it begins with
alreadyStarted(started) == started

\* SessionManager::start (revision 1 creates the channel on the main thread,
\* revision 2 uses the one that came with setCommandSet)
Start(t) ==
    /\ SmReady(t)
    /\ SmCall
    /\ IF alreadyStarted(m_started)
       THEN /\ setError("Service already started")
            /\ UNCHANGED <<m_started, m_channel>>
       ELSE /\ smRev = 1 => smThr["main"].pc = "idle"
            /\ m_started' = TRUE
            /\ m_channel' = IF smRev = 1 THEN TRUE ELSE m_channel
            /\ UNCHANGED sm_lastError
    /\ UNCHANGED <<sm_state, m_authorized, m_currentCardUID, m_commandSet,
                   m_operationMutex, m_appInfo, smThr, bgPending, smQ, card,
                   insertion, connLog, smPaired>>
    /\ UNCHANGED <<cardPw, cardPinRetries, rescan, chanOps, exportLog>>
    /\ SmFrame

getStatusUsesCommandSet_wrong == TRUE

\* SessionManager::getStatus builds keycardStatus from the cached m_appStatus;
\* it does not call m_commandSet->getStatus()
getStatusUsesCommandSet == FALSE

\* SessionManager::getStatus, both revisions: no lock is taken, the snapshot
\* is read from m_state and m_appInfo
GetStatus(t) ==
    /\ SmReady(t)
    /\ SmCall
    /\ connLog' = IF getStatusUsesCommandSet THEN Append(connLog, "GET_STATUS")
                  ELSE connLog
    /\ statusRet' = [state |-> sm_state, initialized |-> m_appInfo,
                     heldBy |-> m_operationMutex]
    /\ UNCHANGED <<sm_state, m_started, m_authorized, m_currentCardUID,
                   m_commandSet, m_channel, m_operationMutex, m_appInfo,
                   sm_lastError, smThr, bgPending, smQ, card, insertion,
                   smPaired, cardPw, cardPinRetries, rescan, chanOps, exportLog>>
    /\ UNCHANGED <<fsmVars, flowVars, storeVars, metaVars, recoverVars, noSlotsAt, smRev,
                   mutexRecursive, crashed>>

\* SessionManager::setCommandSet (revision 2): the CommandSet and its channel
\* are handed in by the owner
SetCommandSet ==
    /\ smRev = 2
    /\ SmReady("main")
    /\ m_commandSet = NoCommandSet
    /\ SmCall
    /\ m_commandSet' = 0
    /\ m_channel' = TRUE
    /\ UNCHANGED <<sm_state, m_started, m_authorized, m_currentCardUID,
                   m_operationMutex, m_appInfo, sm_lastError, smThr, bgPending,
                   smQ, card, insertion, connLog, smPaired>>
    /\ UNCHANGED <<cardPw, cardPinRetries, rescan, chanOps, exportLog>>
    /\ SmFrame

\* SessionManager::stop, revision 1: no mutex, channel and CommandSet are reset
StopV1(t) ==
    /\ smRev = 1
    /\ SmReady(t)
    /\ SmCall
    /\ IF ~m_started
       THEN UNCHANGED <<sm_state, m_started, m_authorized, m_currentCardUID,
                        m_commandSet, m_channel>>
       ELSE /\ m_channel' = FALSE
            /\ m_commandSet' = TornDown
            /\ m_started' = FALSE
            /\ m_authorized' = FALSE
            /\ m_currentCardUID' = ""
            /\ sm_state' = "UnknownReaderState"
    /\ UNCHANGED <<m_operationMutex, m_appInfo, sm_lastError, smThr, bgPending,
                   smQ, card, insertion, connLog, smPaired>>
    /\ UNCHANGED <<cardPw, cardPinRetries, rescan, chanOps, exportLog>>
    /\ SmFrame

\* SessionManager::stop, revision 2: the channel is idled and disconnected
\* under m_operationMutex; channel and CommandSet stay
StopV2(t) ==
    /\ smRev = 2
    /\ SmReady(t)
    /\ SmCall
    /\ IF ~m_started
       THEN UNCHANGED <<sm_state, m_started, m_authorized, m_currentCardUID>>
       ELSE /\ m_operationMutex = "free"
            /\ m_started' = FALSE
            /\ m_authorized' = FALSE
            /\ m_currentCardUID' = ""
            /\ sm_state' = "UnknownReaderState"
    /\ UNCHANGED <<m_commandSet, m_channel, m_operationMutex, m_appInfo,
                   sm_lastError, smThr, bgPending, smQ, card, insertion,
                   connLog, smPaired>>
    /\ UNCHANGED <<cardPw, cardPinRetries, rescan, chanOps, exportLog>>
    /\ SmFrame

\* SessionManager::closeSecureChannel, revision 1: the CommandSet is destroyed
closeSecureChannelV1 == m_commandSet' = NoCommandSet

\* SessionManager::onReaderAvailabilityChanged, revision 1
OnReaderAvailabilityChangedV1(available) ==
    /\ smRev = 1
    /\ SmReady("main")
    /\ m_channel
    /\ SmCall
    /\ IF m_commandSet >= 0 \/ card # "none"
       THEN closeSecureChannelV1
       ELSE UNCHANGED m_commandSet
    /\ sm_state' =
         IF available
         THEN IF sm_state \in {"UnknownReaderState", "WaitingForReader"}
              THEN "WaitingForCard" ELSE sm_state
         ELSE IF sm_state \in {"UnknownReaderState", "WaitingForCard"}
              THEN "WaitingForReader" ELSE sm_state
    /\ UNCHANGED <<m_started, m_authorized, m_currentCardUID, m_channel,
                   m_operationMutex, m_appInfo, sm_lastError, smThr, bgPending,
                   smQ, card, insertion, connLog, smPaired>>
    /\ exportLog' = IF m_commandSet >= 0 \/ card # "none" THEN <<>> ELSE exportLog
    /\ UNCHANGED <<cardPw, cardPinRetries, rescan, chanOps>>
    /\ SmFrame

\* SessionManager::onReaderAvailabilityChanged, revision 2, up to the lock of
\* closeSecureChannel
OnReaderAvailabilityChangedV2(available) ==
    /\ smRev = 2
    /\ SmReady("main")
    /\ m_channel
    /\ SmCall
    /\ LET closes == m_commandSet >= 0 \/ card # "none"
           initial == sm_state \in {"UnknownReaderState", "WaitingForReader"}
       IN  IF available
           THEN IF initial
                THEN /\ smThr' = [smThr EXCEPT !["main"] =
                           IF closes THEN [pc |-> "cs_lock", op |-> "available"]
                                     ELSE SmIdle]
                     /\ sm_state' = IF closes THEN sm_state ELSE "WaitingForCard"
                ELSE UNCHANGED <<smThr, sm_state>>
           ELSE IF closes
                THEN /\ smThr' = [smThr EXCEPT !["main"] =
                                    [pc |-> "cs_lock", op |-> "unavailable"]]
                     /\ UNCHANGED sm_state
                ELSE /\ sm_state' =
                          IF sm_state \in {"UnknownReaderState", "WaitingForCard"}
                          THEN "WaitingForReader" ELSE sm_state
                     /\ UNCHANGED smThr
    /\ UNCHANGED <<m_started, m_authorized, m_currentCardUID, m_commandSet,
                   m_channel, m_operationMutex, m_appInfo, sm_lastError,
                   bgPending, smQ, card, insertion, connLog, smPaired>>
    /\ UNCHANGED <<cardPw, cardPinRetries, rescan, chanOps, exportLog>>
    /\ SmFrame

\* SessionManager::onCardRemoved, revision 1
OnCardRemovedV1 ==
    /\ smRev = 1
    /\ SmReady("main")
    /\ m_channel
    /\ card # "none"
    /\ SmCall
    /\ card' = "none"
    /\ m_currentCardUID' = ""
    /\ m_authorized' = FALSE
    /\ closeSecureChannelV1
    /\ sm_state' = IF m_started THEN "WaitingForCard" ELSE sm_state
    /\ UNCHANGED <<m_started, m_channel, m_operationMutex, m_appInfo,
                   sm_lastError, smThr, bgPending, smQ, insertion, connLog,
                   smPaired>>
    /\ rescan' = FALSE
    /\ exportLog' = <<>>
    /\ UNCHANGED <<cardPw, cardPinRetries, chanOps>>
    /\ SmFrame

\* SessionManager::onCardRemoved, revision 2, up to the lock of
\* closeSecureChannel
OnCardRemovedV2 ==
    /\ smRev = 2
    /\ SmReady("main")
    /\ m_channel
    /\ card # "none"
    /\ SmCall
    /\ card' = "none"
    /\ m_currentCardUID' = ""
    /\ m_authorized' = FALSE
    /\ smThr' = [smThr EXCEPT !["main"] = [pc |-> "cs_lock", op |-> "removed"]]
    /\ UNCHANGED <<sm_state, m_started, m_commandSet, m_channel,
                   m_operationMutex, m_appInfo, sm_lastError, bgPending, smQ,
                   insertion, connLog, smPaired>>
    /\ rescan' = FALSE
    /\ UNCHANGED <<cardPw, cardPinRetries, chanOps, exportLog>>
    /\ SmFrame

\* SessionManager::closeSecureChannel, revision 2, and the rest of the handler
\* that called it: the secure channel of the shared CommandSet is reset under
\* the mutex
CloseSecureChannelV2 ==
    /\ SmAt("main", "cs_lock")
    /\ m_operationMutex = "free"
    /\ sm_state' =
         CASE smThr["main"].op = "removed" ->
                IF m_started THEN "WaitingForCard" ELSE sm_state
           [] smThr["main"].op = "available" -> "WaitingForCard"
           [] OTHER ->
                IF sm_state \in {"UnknownReaderState", "WaitingForCard"}
                THEN "WaitingForReader" ELSE sm_state
    /\ smThr' = [smThr EXCEPT !["main"] = SmIdle]
    /\ UNCHANGED <<m_started, m_authorized, m_currentCardUID, m_commandSet,
                   m_channel, m_operationMutex, m_appInfo, sm_lastError,
                   bgPending, smQ, card, insertion, connLog, smPaired, smCalls>>
    /\ exportLog' = <<>>
    /\ UNCHANGED <<cardPw, cardPinRetries, rescan, chanOps>>
    /\ SmFrame

\* why the channel reports a card
Detections == {"insert", "retap", "rescan"}

\* the reader reports a card: a new insertion, the card that is already there
\* once more (retap), or the card found again by the scan that forceScan()
\* started (rescan, which begins a new connection like an insertion)
TargetDetected(kind) ==
    /\ m_channel
    /\ CASE kind = "retap" ->
              /\ card # "none"
              /\ ~rescan
              /\ smCalls.all > 0 /\ smCalls.retaps > 0
              /\ smCalls' = [smCalls EXCEPT !.all = @ - 1, !.retaps = @ - 1]
              /\ UNCHANGED <<card, cardPw, insertion, connLog, rescan, chanOps>>
         [] kind = "insert" ->
              /\ card = "none"
              /\ smCalls.all > 0 /\ smCalls.cards > 0
              /\ smCalls' = [smCalls EXCEPT !.all = @ - 1, !.cards = @ - 1]
              /\ \/ card' = "initialized" /\ cardPw' = DefaultPairingPassword
                 \/ card' = "empty" /\ cardPw' = "-"
              /\ insertion' = insertion + 1
              /\ connLog' = <<>>
              /\ rescan' = FALSE
              /\ chanOps' = <<>>
         [] kind = "rescan" ->
              /\ card # "none"
              /\ rescan
              /\ rescan' = FALSE
              /\ insertion' = insertion + 1
              /\ connLog' = <<>>
              /\ UNCHANGED <<card, cardPw, smCalls, chanOps>>

\* SessionManager::onCardDetected, revision 1: the connect sequence follows on
\* the main thread
OnCardDetectedV1(kind) ==
    /\ smRev = 1
    /\ SmReady("main")
    /\ TargetDetected(kind)
    /\ m_currentCardUID' = CardUid
    /\ sm_state' = "ConnectingCard"
    /\ smThr' = [smThr EXCEPT !["main"] = [pc |-> "cn_lock", op |-> "connect"]]
    /\ UNCHANGED <<m_started, m_authorized, m_commandSet, m_channel,
                   m_operationMutex, m_appInfo, sm_lastError, bgPending, smQ,
                   smPaired>>
    /\ UNCHANGED <<cardPinRetries, exportLog>>
    /\ SmFrame

\* SessionManager::onCardDetected, revision 2: a detection of the current
\* card is ignored, any other starts a background task
OnCardDetectedV2(kind) ==
    /\ smRev = 2
    /\ SmReady("main")
    /\ TargetDetected(kind)
    /\ IF m_currentCardUID = CardUid /\ sm_state # "ConnectionError"
       THEN UNCHANGED <<m_currentCardUID, sm_state, bgPending>>
       ELSE /\ m_currentCardUID' = CardUid
            /\ sm_state' = "ConnectingCard"
            /\ bgPending' = bgPending + 1
    /\ UNCHANGED <<m_started, m_authorized, m_commandSet, m_channel,
                   m_operationMutex, m_appInfo, sm_lastError, smThr, smQ,
                   smPaired>>
    /\ UNCHANGED <<cardPinRetries, exportLog>>
    /\ SmFrame

\* the end of revision 1's onCardDetected after openSecureChannel returned
ConnectDone(ok, initialized, err) ==
    /\ m_operationMutex' = "free"
    /\ smThr' = [smThr EXCEPT !["main"] = SmIdle]
    /\ sm_state' = IF ~ok THEN "ConnectionError"
                   ELSE IF initialized THEN "Ready" ELSE "EmptyKeycard"
    /\ sm_lastError' = IF ok THEN err ELSE "Failed to connect to card"

\* revision 1's openSecureChannel: the lock and the fresh CommandSet
ConnectLock ==
    /\ SmAt("main", "cn_lock")
    /\ m_operationMutex = "free"
    /\ m_commandSet' = IF m_channel THEN insertion ELSE m_commandSet
    /\ IF m_commandSet' < 0
       THEN ConnectDone(FALSE, FALSE, "")
       ELSE /\ m_operationMutex' = "main"
            /\ smThr' = [smThr EXCEPT !["main"].pc = "cn_select"]
            /\ UNCHANGED <<sm_state, sm_lastError>>
    /\ UNCHANGED <<m_started, m_authorized, m_currentCardUID, m_channel,
                   m_appInfo, bgPending, smQ, card, insertion, connLog,
                   smPaired, smCalls>>
    /\ exportLog' = <<>>
    /\ UNCHANGED <<cardPw, cardPinRetries, rescan, chanOps>>
    /\ SmFrame

\* revision 1's openSecureChannel: SELECT
ConnectSelect ==
    /\ SmAt("main", "cn_select")
    /\ IF m_commandSet < 0
       THEN Crash("main")
       ELSE /\ connLog' = Append(connLog, "SELECT")
            /\ m_appInfo' = (card = "initialized")
            /\ IF card = "initialized"
               THEN /\ smThr' = [smThr EXCEPT !["main"].pc =
                                   IF smPaired THEN "cn_open" ELSE "cn_pair"]
                    /\ UNCHANGED <<sm_state, sm_lastError, m_operationMutex>>
               ELSE ConnectDone(CardAnswers, FALSE, sm_lastError)
            /\ UNCHANGED <<m_started, m_authorized, m_currentCardUID,
                           m_commandSet, m_channel, bgPending, smQ, card,
                           insertion, smPaired, smCalls, crashed>>
    /\ UNCHANGED <<cardPw, cardPinRetries, rescan, chanOps, exportLog>>
    /\ SmFrameCall

\* revision 1's openSecureChannel: no stored pairing, PAIR with the default
\* password and store the pairing; the card refuses when the password is
\* not its own or when it has no free pairing slot
ConnectPair ==
    /\ SmAt("main", "cn_pair")
    /\ IF m_commandSet < 0
       THEN Crash("main") /\ UNCHANGED noSlotsAt
       ELSE /\ connLog' = Append(connLog, "PAIR")
            /\ \E freeSlot \in BOOLEAN :
                 /\ noSlotsAt' = IF CardAnswers /\ ~freeSlot THEN insertion
                                 ELSE noSlotsAt
                 /\ IF CardAnswers /\ cardPw = DefaultPairingPassword /\ freeSlot
                    THEN /\ smPaired' = TRUE
                         /\ smThr' = [smThr EXCEPT !["main"].pc = "cn_open"]
                         /\ UNCHANGED <<sm_state, sm_lastError, m_operationMutex>>
                    ELSE /\ ConnectDone(FALSE, FALSE, "")
                         /\ UNCHANGED smPaired
            /\ UNCHANGED <<m_started, m_authorized, m_currentCardUID,
                           m_commandSet, m_channel, m_appInfo, bgPending, smQ,
                           card, insertion, smCalls, crashed>>
    /\ UNCHANGED <<cardPw, cardPinRetries, rescan, chanOps, exportLog>>
    /\ UNCHANGED <<fsmVars, flowVars, storeVars, metaVars, recoverVars, smRev, mutexRecursive,
                   statusRet>>

\* revision 1's openSecureChannel: OPEN_SECURE_CHANNEL
ConnectOpen ==
    /\ SmAt("main", "cn_open")
    /\ IF m_commandSet < 0
       THEN Crash("main")
       ELSE /\ connLog' = Append(connLog, "OPEN_SECURE_CHANNEL")
            /\ IF CardAnswers
               THEN /\ smThr' = [smThr EXCEPT !["main"].pc = "cn_status"]
                    /\ UNCHANGED <<sm_state, sm_lastError, m_operationMutex>>
               ELSE ConnectDone(FALSE, FALSE, "")
            /\ UNCHANGED <<m_started, m_authorized, m_currentCardUID,
                           m_commandSet, m_channel, m_appInfo, bgPending, smQ,
                           card, insertion, smPaired, smCalls, crashed>>
    /\ UNCHANGED <<cardPw, cardPinRetries, rescan, chanOps, exportLog>>
    /\ SmFrameCall

\* revision 1's openSecureChannel: GET_STATUS, whose failure is only logged;
\* then getMetadata, which sends nothing because the state is not Ready or
\* Authorized while the connect runs, and m_lastError.clear()
ConnectStatus ==
    /\ SmAt("main", "cn_status")
    /\ IF m_commandSet < 0
       THEN Crash("main")
       ELSE /\ connLog' = Append(connLog, "GET_STATUS")
            /\ ConnectDone(TRUE, m_appInfo, "")
            /\ UNCHANGED <<m_started, m_authorized, m_currentCardUID,
                           m_commandSet, m_channel, m_appInfo, bgPending, smQ,
                           card, insertion, smPaired, smCalls, crashed>>
    /\ UNCHANGED <<cardPw, cardPinRetries, rescan, chanOps, exportLog>>
    /\ SmFrameCall

\* revision 2's background task takes the mutex
BgLock ==
    /\ crashed = 0
    /\ bgPending > 0
    /\ m_operationMutex = "free"
    /\ m_operationMutex' = "bg"
    /\ bgPending' = bgPending - 1
    /\ UNCHANGED <<sm_state, m_started, m_authorized, m_currentCardUID,
                   m_commandSet, m_channel, m_appInfo, sm_lastError, smThr, smQ,
                   card, insertion, connLog, smPaired, smCalls>>
    /\ UNCHANGED <<cardPw, cardPinRetries, rescan, chanOps, exportLog>>
    /\ SmFrame

\* revision 2's background task: SELECT on the shared CommandSet and the
\* queued lambda with the outcome
BgSelect ==
    /\ crashed = 0
    /\ m_operationMutex = "bg"
    /\ m_operationMutex' = "free"
    /\ IF m_commandSet < 0
       THEN /\ smQ' = Append(smQ, "Failed to create command set")
            /\ UNCHANGED <<connLog, m_appInfo>>
       ELSE /\ connLog' = Append(connLog, "SELECT")
            /\ m_appInfo' = (card = "initialized")
            /\ smQ' = Append(smQ, IF CardAnswers THEN "selected"
                                  ELSE "Failed to select applet")
    /\ UNCHANGED <<sm_state, m_started, m_authorized, m_currentCardUID,
                   m_commandSet, m_channel, sm_lastError, smThr, bgPending,
                   card, insertion, smPaired, smCalls>>
    /\ UNCHANGED <<cardPw, cardPinRetries, rescan, chanOps, exportLog>>
    /\ SmFrame

\* the main thread runs a lambda queued by the background task
ConnectResult ==
    /\ SmReady("main")
    /\ smQ # <<>>
    /\ smQ' = Tail(smQ)
    /\ IF Head(smQ) = "selected"
       THEN /\ sm_state' = IF m_appInfo THEN "Ready" ELSE "EmptyKeycard"
            /\ UNCHANGED sm_lastError
       ELSE /\ setError(Head(smQ))
            /\ sm_state' = "ConnectionError"
    /\ UNCHANGED <<m_started, m_authorized, m_currentCardUID, m_commandSet,
                   m_channel, m_operationMutex, m_appInfo, smThr, bgPending,
                   card, insertion, connLog, smPaired, smCalls>>
    /\ UNCHANGED <<cardPw, cardPinRetries, rescan, chanOps, exportLog>>
    /\ SmFrame

\* the return of a call that fails before it sends anything
SmFail(t, msg) ==
    /\ setError(msg)
    /\ UNCHANGED <<smThr, m_operationMutex>>

\* a call of thread t goes on to position pc; the mutex is taken if the call
\* locks it
SmProceed(t, pc, op, locks) ==
    /\ smThr' = [smThr EXCEPT ![t] = [pc |-> pc, op |-> op]]
    /\ m_operationMutex' = IF locks THEN t ELSE m_operationMutex

\* a call of thread t returns and gives up the mutex if it holds it
SmReturn(t) ==
    /\ smThr' = [smThr EXCEPT ![t] = SmIdle]
    /\ m_operationMutex' = IF m_operationMutex = t THEN "free"
                           ELSE m_operationMutex

\* SessionManager::authorize, both revisions: the checks under the mutex
Authorize(t, pin) ==
    /\ SmReady(t)
    /\ SmCall
    /\ m_operationMutex = "free"
    /\ IF sm_state # "Ready"
       THEN SmFail(t, "Card not ready")
       ELSE IF m_commandSet < 0
       THEN SmFail(t, "No command set available")
       ELSE /\ SmProceed(t, "au_send", pin, TRUE)
            /\ UNCHANGED sm_lastError
    /\ UNCHANGED <<sm_state, m_started, m_authorized, m_currentCardUID,
                   m_commandSet, m_channel, m_appInfo, bgPending, smQ, card,
                   insertion, connLog, smPaired>>
    /\ UNCHANGED <<cardPw, cardPinRetries, rescan, chanOps, exportLog>>
    /\ SmFrame

\* the card's PIN retry counter after a VERIFY_PIN with a wrong PIN
wrongPinRetries(retries) == IF retries > 0 THEN retries - 1 ELSE 0

WrongPinMessage_wrong(remaining) == "Wrong PIN"

\* the message of authorize for a wrong PIN: QString("Wrong PIN (%1 attempts
\* remaining)").arg(remaining)
WrongPinMessage(remaining) ==
    "Wrong PIN (" \o ToString(remaining) \o " attempts remaining)"

\* SessionManager::authorize: VERIFY_PIN and the outcome.  A card with retries
\* left accepts the correct PIN and sets its counter back; otherwise it
\* answers 63Cx with the attempts that remain, which CommandSet reports as
\* remainingPINAttempts(); without a card there is no such answer.
AuthorizeSend(t) ==
    /\ SmAt(t, "au_send")
    /\ IF m_commandSet < 0
       THEN Crash(t)
       ELSE /\ IF CardAnswers /\ smThr[t].op = "good" /\ cardPinRetries > 0
               THEN /\ m_authorized' = TRUE
                    /\ sm_state' = "Authorized"
                    /\ cardPinRetries' = MaxPinRetries
                    /\ UNCHANGED sm_lastError
               ELSE /\ IF CardAnswers
                       THEN /\ cardPinRetries' = wrongPinRetries(cardPinRetries)
                            /\ setError(WrongPinMessage(cardPinRetries'))
                       ELSE /\ setError("card error")
                            /\ UNCHANGED cardPinRetries
                    /\ UNCHANGED <<m_authorized, sm_state>>
            /\ SmReturn(t)
            /\ UNCHANGED <<m_started, m_currentCardUID, m_commandSet, m_channel,
                           m_appInfo, bgPending, smQ, card, insertion, connLog,
                           smPaired, smCalls, crashed>>
    /\ UNCHANGED <<cardPw, rescan, chanOps, exportLog>>
    /\ SmFrameCall

\* SessionManager::changePIN: revision 1 takes no mutex, revision 2 does;
\* neither checks m_commandSet
ChangePIN(t) ==
    /\ SmReady(t)
    /\ SmCall
    /\ smRev = 2 => m_operationMutex = "free"
    /\ IF sm_state # "Authorized"
       THEN SmFail(t, "Not authorized")
       ELSE /\ SmProceed(t, "cp_send", "changePIN", smRev = 2)
            /\ UNCHANGED sm_lastError
    /\ UNCHANGED <<sm_state, m_started, m_authorized, m_currentCardUID,
                   m_commandSet, m_channel, m_appInfo, bgPending, smQ, card,
                   insertion, connLog, smPaired>>
    /\ UNCHANGED <<cardPw, cardPinRetries, rescan, chanOps, exportLog>>
    /\ SmFrame

\* SessionManager::changePIN: CHANGE_PIN and the outcome
ChangePINSend(t) ==
    /\ SmAt(t, "cp_send")
    /\ IF m_commandSet < 0
       THEN Crash(t)
       ELSE /\ IF CardAnswers THEN UNCHANGED sm_lastError
                              ELSE setError("card error")
            /\ SmReturn(t)
            /\ UNCHANGED <<sm_state, m_started, m_authorized, m_currentCardUID,
                           m_commandSet, m_channel, m_appInfo, bgPending, smQ,
                           card, insertion, connLog, smPaired, smCalls, crashed>>
    /\ UNCHANGED <<cardPw, cardPinRetries, rescan, chanOps, exportLog>>
    /\ SmFrameCall

\* CommandSet::exportKey(derive, makeCurrent, path) as the export log sees it
exportKey(makeCurrent) ==
    exportLog' = IF Len(exportLog) < MaxExportLog
                 THEN Append(exportLog, makeCurrent) ELSE exportLog

\* SessionManager::getMetadata: revision 1 takes no mutex, revision 2 does
GetMetadata(t) ==
    /\ SmReady(t)
    /\ SmCall
    /\ smRev = 2 => m_operationMutex = "free"
    /\ IF sm_state \notin {"Ready", "Authorized"}
       THEN SmFail(t, "Card not ready")
       ELSE IF m_commandSet < 0
       THEN SmFail(t, "No command set available")
       ELSE /\ SmProceed(t, "gm_data", "getMetadata", smRev = 2)
            /\ UNCHANGED sm_lastError
    /\ UNCHANGED <<sm_state, m_started, m_authorized, m_currentCardUID,
                   m_commandSet, m_channel, m_appInfo, bgPending, smQ, card,
                   insertion, connLog, smPaired>>
    /\ UNCHANGED <<cardPw, cardPinRetries, rescan, chanOps, exportLog>>
    /\ SmFrame

\* SessionManager::getMetadata: GET_DATA; without an answer the metadata are
\* empty and the call returns, with one the wallet's key is exported next
GetMetadataData(t) ==
    /\ SmAt(t, "gm_data")
    /\ IF m_commandSet < 0
       THEN Crash(t)
       ELSE /\ IF CardAnswers
               THEN /\ smThr' = [smThr EXCEPT ![t].pc = "gm_export"]
                    /\ UNCHANGED m_operationMutex
               ELSE SmReturn(t)
            /\ UNCHANGED <<sm_state, m_started, m_authorized, m_currentCardUID,
                           m_commandSet, m_channel, m_appInfo, sm_lastError,
                           bgPending, smQ, card, insertion, connLog, smPaired,
                           smCalls, crashed>>
    /\ UNCHANGED <<cardPw, cardPinRetries, rescan, chanOps, exportLog>>
    /\ SmFrameCall

\* SessionManager::getMetadata: EXPORT_KEY for the wallet path
GetMetadataExport(t) ==
    /\ SmAt(t, "gm_export")
    /\ IF m_commandSet < 0
       THEN Crash(t)
       ELSE /\ exportKey(FALSE)
            /\ SmReturn(t)
            /\ UNCHANGED <<sm_state, m_started, m_authorized, m_currentCardUID,
                           m_commandSet, m_channel, m_appInfo, sm_lastError,
                           bgPending, smQ, card, insertion, connLog, smPaired,
                           smCalls, crashed>>
    /\ UNCHANGED <<cardPw, cardPinRetries, rescan, chanOps>>
    /\ SmFrameCall

\* SessionManager::exportLoginKeys, both revisions: the checks under the mutex
ExportLoginKeys(t) ==
    /\ SmReady(t)
    /\ SmCall
    /\ m_operationMutex = "free"
    /\ IF sm_state # "Authorized"
       THEN SmFail(t, "Not authorized")
       ELSE IF m_commandSet < 0
       THEN SmFail(t, "No command set available")
       ELSE /\ SmProceed(t, "el_whisper", "exportLoginKeys", TRUE)
            /\ sm_lastError' = ""
    /\ UNCHANGED <<sm_state, m_started, m_authorized, m_currentCardUID,
                   m_commandSet, m_channel, m_appInfo, bgPending, smQ, card,
                   insertion, connLog, smPaired>>
    /\ UNCHANGED <<cardPw, cardPinRetries, rescan, chanOps, exportLog>>
    /\ SmFrame

\* SessionManager::exportLoginKeys: EXPORT_KEY for the whisper key
ExportWhisper(t) ==
    /\ SmAt(t, "el_whisper")
    /\ IF m_commandSet < 0
       THEN Crash(t)
       ELSE /\ exportKey(TRUE)
            /\ IF CardAnswers
               THEN /\ smThr' = [smThr EXCEPT ![t].pc = "el_encryption"]
                    /\ UNCHANGED <<m_operationMutex, sm_lastError>>
               ELSE /\ setError("Failed to export whisper key")
                    /\ SmReturn(t)
            /\ UNCHANGED <<sm_state, m_started, m_authorized, m_currentCardUID,
                           m_commandSet, m_channel, m_appInfo, bgPending, smQ,
                           card, insertion, connLog, smPaired, smCalls, crashed>>
    /\ UNCHANGED <<cardPw, cardPinRetries, rescan, chanOps>>
    /\ SmFrameCall

\* SessionManager::exportLoginKeys: EXPORT_KEY for the encryption key; called
\* from exportRecoverKeys, that call goes on
ExportEncryption(t) ==
    /\ SmAt(t, "el_encryption")
    /\ IF m_commandSet < 0
       THEN Crash(t)
       ELSE /\ exportKey(FALSE)
            /\ IF CardAnswers
               THEN UNCHANGED sm_lastError
               ELSE setError("Failed to export encryption key")
            /\ IF CardAnswers /\ smThr[t].op = "exportRecoverKeys"
               THEN /\ smThr' = [smThr EXCEPT ![t].pc = "er_eip1581"]
                    /\ UNCHANGED m_operationMutex
               ELSE SmReturn(t)
            /\ UNCHANGED <<sm_state, m_started, m_authorized, m_currentCardUID,
                           m_commandSet, m_channel, m_appInfo, bgPending, smQ,
                           card, insertion, connLog, smPaired, smCalls, crashed>>
    /\ UNCHANGED <<cardPw, cardPinRetries, rescan, chanOps>>
    /\ SmFrameCall

\* SessionManager::exportRecoverKeys, both revisions: the checks under the
\* mutex
ExportRecoverKeys(t) ==
    /\ SmReady(t)
    /\ SmCall
    /\ m_operationMutex = "free"
    /\ IF sm_state # "Authorized"
       THEN SmFail(t, "Not authorized")
       ELSE IF m_commandSet < 0
       THEN SmFail(t, "No command set available")
       ELSE /\ SmProceed(t, "er_login", "exportRecoverKeys", TRUE)
            /\ sm_lastError' = ""
    /\ UNCHANGED <<sm_state, m_started, m_authorized, m_currentCardUID,
                   m_commandSet, m_channel, m_appInfo, bgPending, smQ, card,
                   insertion, connLog, smPaired>>
    /\ UNCHANGED <<cardPw, cardPinRetries, rescan, chanOps, exportLog>>
    /\ SmFrame

\* SessionManager::exportRecoverKeys calls exportLoginKeys, which locks
\* m_operationMutex again: the caller holds it, so the call goes on only with
\* a recursive mutex; then the checks of exportLoginKeys
ExportRecoverLogin(t) ==
    /\ SmAt(t, "er_login")
    /\ mutexRecursive
    /\ IF sm_state # "Authorized"
       THEN setError("Not authorized") /\ SmReturn(t)
       ELSE IF m_commandSet < 0
       THEN setError("No command set available") /\ SmReturn(t)
       ELSE /\ smThr' = [smThr EXCEPT ![t].pc = "el_whisper"]
            /\ sm_lastError' = ""
            /\ UNCHANGED m_operationMutex
    /\ UNCHANGED <<sm_state, m_started, m_authorized, m_currentCardUID,
                   m_commandSet, m_channel, m_appInfo, bgPending, smQ, card,
                   insertion, connLog, smPaired, smCalls>>
    /\ UNCHANGED <<cardPw, cardPinRetries, rescan, chanOps, exportLog>>
    /\ SmFrame

\* the keys exportRecoverKeys exports after the login keys, in order
RecoverKeyPcs == <<"er_eip1581", "er_walletRoot", "er_wallet", "er_master">>

\* SessionManager::exportRecoverKeys: EXPORT_KEY for the EIP1581, wallet root,
\* wallet and master keys, the last one with makeCurrent = true
ExportRecoverKey(t) ==
    /\ crashed = 0
    /\ \E i \in 1..Len(RecoverKeyPcs) :
         /\ smThr[t].pc = RecoverKeyPcs[i]
         /\ IF m_commandSet < 0
            THEN Crash(t)
            ELSE /\ exportKey(i = Len(RecoverKeyPcs))
                 /\ IF CardAnswers /\ i < Len(RecoverKeyPcs)
                    THEN /\ smThr' = [smThr EXCEPT ![t].pc = RecoverKeyPcs[i + 1]]
                         /\ UNCHANGED <<m_operationMutex, sm_lastError>>
                    ELSE /\ IF CardAnswers THEN UNCHANGED sm_lastError
                                           ELSE setError("Failed to export key")
                         /\ SmReturn(t)
                 /\ UNCHANGED <<sm_state, m_started, m_authorized,
                                m_currentCardUID, m_commandSet, m_channel,
                                m_appInfo, bgPending, smQ, card, insertion,
                                connLog, smPaired, smCalls, crashed>>
    /\ UNCHANGED <<cardPw, cardPinRetries, rescan, chanOps>>
    /\ SmFrameCall

\* SessionManager::initialize: revision 1 takes no mutex, revision 2 does
Initialize(t, pairingPassword) ==
    /\ SmReady(t)
    /\ SmCall
    /\ smRev = 2 => m_operationMutex = "free"
    /\ IF sm_state \notin {"Ready", "EmptyKeycard"}
       THEN SmFail(t, "Card not ready for initialization")
       ELSE IF m_commandSet < 0
       THEN SmFail(t, "No command set available")
       ELSE /\ SmProceed(t, "in_send", pairingPassword, smRev = 2)
            /\ UNCHANGED sm_lastError
    /\ UNCHANGED <<sm_state, m_started, m_authorized, m_currentCardUID,
                   m_commandSet, m_channel, m_appInfo, bgPending, smQ, card,
                   insertion, connLog, smPaired>>
    /\ UNCHANGED <<cardPw, cardPinRetries, rescan, chanOps, exportLog>>
    /\ SmFrame

\* SessionManager::initialize: INIT, which only a card that is not yet
\* initialized accepts; the card then has the given pairing password (the
\* default one for an empty argument) and a new instance, unknown to the
\* pairing store
InitializeSend(t) ==
    /\ SmAt(t, "in_send")
    /\ IF m_commandSet < 0
       THEN Crash(t)
       ELSE /\ IF card = "empty"
               THEN /\ card' = "initialized"
                    /\ cardPw' = smThr[t].op
                    /\ cardPinRetries' = MaxPinRetries
                    /\ smPaired' = FALSE
                    /\ smThr' = [smThr EXCEPT ![t] =
                                    [pc |-> "rc_close", op |-> "initialize"]]
                    /\ UNCHANGED <<sm_lastError, m_operationMutex>>
               ELSE /\ setError("card error")
                    /\ SmReturn(t)
                    /\ UNCHANGED <<card, cardPw, cardPinRetries, smPaired>>
            /\ UNCHANGED <<sm_state, m_started, m_authorized, m_currentCardUID,
                           m_commandSet, m_channel, m_appInfo, bgPending, smQ,
                           insertion, connLog, smCalls, rescan, chanOps,
                           exportLog, crashed>>
    /\ SmFrameCall

\* SessionManager::factoryReset: revision 1 takes no mutex, revision 2 does;
\* neither checks m_commandSet
FactoryReset(t) ==
    /\ SmReady(t)
    /\ SmCall
    /\ smRev = 2 => m_operationMutex = "free"
    /\ IF sm_state \notin {"Ready", "Authorized"}
       THEN SmFail(t, "Card not ready")
       ELSE /\ SmProceed(t, "fr_send", "factoryReset", smRev = 2)
            /\ UNCHANGED sm_lastError
    /\ UNCHANGED <<sm_state, m_started, m_authorized, m_currentCardUID,
                   m_commandSet, m_channel, m_appInfo, bgPending, smQ, card,
                   insertion, connLog, smPaired>>
    /\ UNCHANGED <<cardPw, cardPinRetries, rescan, chanOps, exportLog>>
    /\ SmFrame

\* SessionManager::factoryReset: FACTORY_RESET; the card is empty afterwards
\* and its pairings are gone
FactoryResetSend(t) ==
    /\ SmAt(t, "fr_send")
    /\ IF m_commandSet < 0
       THEN Crash(t)
       ELSE /\ IF CardAnswers
               THEN /\ card' = "empty"
                    /\ cardPw' = "-"
                    /\ smPaired' = FALSE
                    /\ smThr' = [smThr EXCEPT ![t] =
                                    [pc |-> "rc_close", op |-> "factoryReset"]]
                    /\ UNCHANGED <<sm_lastError, m_operationMutex>>
               ELSE /\ setError("card error")
                    /\ SmReturn(t)
                    /\ UNCHANGED <<card, cardPw, smPaired>>
            /\ UNCHANGED <<sm_state, m_started, m_authorized, m_currentCardUID,
                           m_commandSet, m_channel, m_appInfo, bgPending, smQ,
                           insertion, connLog, smCalls, cardPinRetries, rescan,
                           chanOps, exportLog, crashed>>
    /\ SmFrameCall

\* the end of a successful initialize or factoryReset.  Revision 1:
\* closeSecureChannel destroys the CommandSet, then m_channel->forceScan().
\* Revision 2: closeSecureChannel locks m_operationMutex, which the caller
\* holds (it goes on only with a recursive mutex), and resets the secure
\* channel of the shared CommandSet; then the UID and the authorization are
\* cleared and the channel is disconnected and told to scan.
ResetCardConnection(t) ==
    /\ SmAt(t, "rc_close")
    /\ IF smRev = 1
       THEN IF ~m_channel
            THEN /\ crashed' = TornDown
                 /\ smThr' = [smThr EXCEPT ![t].pc = "crashed"]
                 /\ UNCHANGED <<m_commandSet, m_currentCardUID, m_authorized,
                                chanOps, rescan, exportLog, m_operationMutex>>
            ELSE /\ closeSecureChannelV1
                 /\ chanOps' = <<"forceScan">>
                 /\ rescan' = TRUE
                 /\ exportLog' = <<>>
                 /\ SmReturn(t)
                 /\ UNCHANGED <<m_currentCardUID, m_authorized, crashed>>
       ELSE /\ mutexRecursive
            /\ exportLog' = <<>>
            /\ m_currentCardUID' = ""
            /\ m_authorized' = FALSE
            /\ chanOps' = <<"disconnect", "forceScan">>
            /\ rescan' = TRUE
            /\ SmReturn(t)
            /\ UNCHANGED <<m_commandSet, crashed>>
    /\ UNCHANGED <<sm_state, m_started, m_channel, m_appInfo, sm_lastError,
                   bgPending, smQ, card, insertion, connLog, smPaired, smCalls,
                   cardPw, cardPinRetries>>
    /\ SmFrameCall

\* revision 1 declares m_operationMutex a QMutex; the header of revision 2 is
\* not in the source, its mutex is of either kind
SessionBuilds == {<<1, FALSE>>, <<2, FALSE>>, <<2, TRUE>>}

InitSession ==
    /\ InitFsm /\ InitFlow /\ InitStore /\ InitMeta(<<>>, <<>>) /\ InitRecover(0, 0)
    /\ \E b \in SessionBuilds : InitSm(b[1], b[2])

NextSession ==
    \/ \E t \in SmOwners : Start(t)
    \/ SetCommandSet
    \/ \E t \in SmOwners : StopV1(t)
    \/ \E t \in SmOwners : StopV2(t)
    \/ \E available \in BOOLEAN : OnReaderAvailabilityChangedV1(available)
    \/ \E available \in BOOLEAN : OnReaderAvailabilityChangedV2(available)
    \/ OnCardRemovedV1
    \/ OnCardRemovedV2
    \/ CloseSecureChannelV2
    \/ \E kind \in Detections : OnCardDetectedV1(kind)
    \/ \E kind \in Detections : OnCardDetectedV2(kind)
    \/ ConnectLock
    \/ ConnectSelect
    \/ ConnectPair
    \/ ConnectOpen
    \/ ConnectStatus
    \/ BgLock
    \/ BgSelect
    \/ ConnectResult
    \/ \E t \in SmCallers, pin \in {"good", "bad"} : Authorize(t, pin)
    \/ \E t \in SmCallers : AuthorizeSend(t)
    \/ \E t \in SmCallers : ChangePIN(t)
    \/ \E t \in SmCallers : ChangePINSend(t)
    \/ \E t \in SmCallers : GetMetadata(t)
    \/ \E t \in SmCallers : GetMetadataData(t)
    \/ \E t \in SmCallers : GetMetadataExport(t)
    \/ \E t \in SmCallers : ExportLoginKeys(t)
    \/ \E t \in SmCallers : ExportWhisper(t)
    \/ \E t \in SmCallers : ExportEncryption(t)
    \/ \E t \in SmCallers : ExportRecoverKeys(t)
    \/ \E t \in SmCallers : ExportRecoverLogin(t)
    \/ \E t \in SmCallers : ExportRecoverKey(t)
    \/ \E t \in SmOwners, pw \in PairingPasswords : Initialize(t, pw)
    \/ \E t \in SmOwners : InitializeSend(t)
    \/ \E t \in SmOwners : FactoryReset(t)
    \/ \E t \in SmOwners : FactoryResetSend(t)
    \/ \E t \in SmOwners : ResetCardConnection(t)

SpecSession == InitSession /\ [][NextSession]_vars

\* the session with a card being connected, callers of authorize, and
\* callers of getStatus
NextStatus ==
    \/ \E t \in SmOwners : Start(t)
    \/ SetCommandSet
    \/ \E kind \in Detections : OnCardDetectedV1(kind)
    \/ \E kind \in Detections : OnCardDetectedV2(kind)
    \/ ConnectLock
    \/ ConnectSelect
    \/ ConnectPair
    \/ ConnectOpen
    \/ ConnectStatus
    \/ BgLock
    \/ BgSelect
    \/ ConnectResult
    \/ \E t \in SmCallers, pin \in {"good", "bad"} : Authorize(t, pin)
    \/ \E t \in SmCallers : AuthorizeSend(t)
    \/ \E t \in SmCallers : GetStatus(t)

SpecStatus == InitSession /\ [][NextStatus]_vars

\* the steps that need no new call or reader event: the calls in progress, the
\* handlers and lambdas of the event loop, the background task and the scan
\* that forceScan() started
SessionProgress ==
    \/ CloseSecureChannelV2
    \/ OnCardDetectedV1("rescan")
    \/ OnCardDetectedV2("rescan")
    \/ ConnectLock
    \/ ConnectSelect
    \/ ConnectPair
    \/ ConnectOpen
    \/ ConnectStatus
    \/ BgLock
    \/ BgSelect
    \/ ConnectResult
    \/ \E t \in SmCallers :
         \/ AuthorizeSend(t)
         \/ ChangePINSend(t)
         \/ GetMetadataData(t)
         \/ GetMetadataExport(t)
         \/ ExportWhisper(t)
         \/ ExportEncryption(t)
         \/ ExportRecoverLogin(t)
         \/ ExportRecoverKey(t)
         \/ InitializeSend(t)
         \/ FactoryResetSend(t)
         \/ ResetCardConnection(t)

\* SessionManager with threads, event loop and thread pool that keep running
SpecSessionLive == SpecSession /\ WF_vars(SessionProgress)


\* ---------------------------------------------------------------------------
\* Specifications
\* ---------------------------------------------------------------------------
\* a test calls FlowStateMachine::transition(newState)
TransitionCall(newState) == transition(newState) /\ UNCHANGED <<flowVars, smVars>>

\* a test calls FlowStateMachine::reset()
ResetCall == reset /\ UNCHANGED <<flowVars, smVars>>

NextFsm ==
    \/ \E t \in FlowState : TransitionCall(t)
    \/ ResetCall

\* The state machine on its own, driven by arbitrary transition()/reset() calls
SpecFsm == InitFlowSpec /\ [][NextFsm]_vars

\* ---------------------------------------------------------------------------
\* C1
\* ---------------------------------------------------------------------------
PermittedTransitions ==
    { <<"Idle", "Running">>,
      <<"Running", "Paused">>, <<"Running", "Cancelling">>, <<"Running", "Idle">>,
      <<"Paused", "Resuming">>, <<"Paused", "Cancelling">>, <<"Paused", "Running">>,
      <<"Resuming", "Running">>,
      <<"Cancelling", "Idle">> }

\* C1: transition(t) called in state s returns true iff s = t or (s, t) is a
\* permitted pair; on true the state is t, with a stateChanged(s, t) signal
\* unless s = t; on false the state stays s and nothing is signalled.
C1_TransitionMatrix ==
    lastCall # NoCall =>
        /\ lastCall.ret <=> (lastCall.from = lastCall.to
                             \/ <<lastCall.from, lastCall.to>> \in PermittedTransitions)
        /\ lastCall.ret => m_state = lastCall.to
        /\ ~lastCall.ret => m_state = lastCall.from
        /\ lastCall.emitted <=> (lastCall.ret /\ lastCall.from # lastCall.to)
        /\ lastCall.emitted =>
              /\ stateChanged # <<>>
              /\ stateChanged[Len(stateChanged)] = <<lastCall.from, lastCall.to>>

\* a Paused -> Running call was accepted and signalled
C1_Witness ==
    /\ lastCall = [from |-> "Paused", to |-> "Running", ret |-> TRUE, emitted |-> TRUE]
    /\ m_state = "Running"
    /\ stateChanged[Len(stateChanged)] = <<"Paused", "Running">>

\* ---------------------------------------------------------------------------
\* C2
\* ---------------------------------------------------------------------------
LiveFlows == {f \in FlowIds : flows[f].st = "live"}

\* thread t is back from a startFlow call of a valid flow type
StartReturned(t) ==
    /\ thr[t].pc = "idle"
    /\ thr[t].op = "startFlow"
    /\ thr[t].err # "Failed to create flow"

\* both callers are back from startFlow calls that were pending together on
\* an Idle engine
ConcurrentStartsReturned ==
    \A t \in ApiThreads : StartReturned(t) /\ thr[t].conc

C3_ResumeWakesWorker ==
    [][\A t \in Threads :
          thr[t].pc = "rf_resume" /\ thr'[t].pc = "rf_running" =>
              \E k \in FlowIds :
                  /\ tasks[k].flow = thr[t].f
                  /\ tasks[k].pc = "p_waiting"
                  /\ tasks'[k].pc = "p_woken"]_vars

\* ---------------------------------------------------------------------------
\* C4
\* ---------------------------------------------------------------------------
\* C4: when cancelFlow, called with a flow Running or Paused, returns, the
\* engine is Idle, the flow has been cleaned up and no worker is still
\* executing it.
C4_CancelCleansUp ==
    [][\A t \in ApiThreads :
          /\ thr[t].op = "cancelFlow"
          /\ thr[t].idle
          /\ thr[t].pc = "cu_lock"
          /\ thr'[t].pc = "idle"
          => /\ m_state' = "Idle"
             /\ flows'[thr[t].f].st = "deleted"
             /\ \A k \in FlowIds :
                   tasks'[k].flow = thr[t].f => tasks'[k].pc = "done"]_vars

\* ---------------------------------------------------------------------------
\* C5
\* ---------------------------------------------------------------------------
ResumePcs == {"rf_resume", "rf_running"}

\* C5: resumeFlow succeeds only when the engine is Paused; it then merges the
\* supplied params into the flow's params (supplied keys override, the other
\* keys stay) and the state goes Paused -> Resuming -> Running with nothing in
\* between; a resumeFlow in any other state returns false and changes neither
\* the state nor the flow.
C5_Resume ==
    /\ [](\A t \in Threads : thr[t].pc \in ResumePcs => m_state = "Resuming")
    /\ [][\A t \in Threads :
            /\ thr[t].pc \notin ResumePcs /\ thr'[t].pc = "rf_resume"
                  => m_state = "Paused" /\ m_state' = "Resuming"
            /\ thr[t].pc = "rf_resume" /\ thr'[t].pc = "rf_running"
                  => /\ m_state' = "Resuming"
                     /\ \A key \in Keys :
                          flows'[thr[t].f].m_params[key] =
                             IF thr[t].arg[key] # Absent
                             THEN thr[t].arg[key]
                             ELSE flows[thr[t].f].m_params[key]
            /\ thr[t].pc = "rf_running" /\ thr'[t].pc # "rf_running"
                  => m_state' = "Running" /\ thr'[t].pc = "idle"
            /\ ((calls'.resumes < calls.resumes /\ t \in Controllers)
                   \/ (thr[t].pc = "rf_call" /\ thr'[t].pc # "rf_call"))
               => (\/ thr'[t].pc = "rf_resume"
                   \/ /\ m_state # "Paused"
                      /\ thr'[t].pc = "idle"
                      /\ m_state' = m_state
                      /\ flows' = flows
                      /\ tasks' = tasks)]_vars

\* an accepted resume has merged: the flow holds a pin supplied by an earlier
\* resume while the resume now returning supplied none
C5_Witness ==
    \E t \in Threads :
        /\ thr[t].pc = "rf_running"
        /\ thr[t].arg = NoParams
        /\ flows[thr[t].f].m_params["pin"] # Absent

\* ---------------------------------------------------------------------------
\* C8
\* ---------------------------------------------------------------------------
\* C8: the command sent right after a successful OPEN_SECURE_CHANNEL is
\* GET_STATUS (never VERIFY_PIN or any other command).
C8_GetStatusAfterOpen ==
    \A i \in 1..(Len(apduLog) - 1) :
        apduLog[i] = "OPEN_SECURE_CHANNEL" => apduLog[i + 1] = "GET_STATUS"

\* ---------------------------------------------------------------------------
\* C6
\* ---------------------------------------------------------------------------
\* positions at which a call's next step sends a command to the card
SendPcs == {"au_send", "gm_data", "gm_export", "el_whisper", "el_encryption"}

\* positions between two commands of one call
MidExchangePcs == {"gm_export", "el_encryption"}

\* C6: a call of authorize, getMetadata or exportLoginKeys sends a command
\* only while no other call is between two of its commands: the command
\* sequences of concurrent calls do not interleave.
C6_NoInterleaving ==
    [][\A t \in SmCallers :
          /\ smThr[t].pc \in SendPcs
          /\ smThr'[t] # smThr[t]
          /\ smThr'[t].pc # "crashed"
          => \A u \in SmCallers \ {t} : smThr[u].pc \notin MidExchangePcs]_vars

\* ---------------------------------------------------------------------------
\* C7
\* ---------------------------------------------------------------------------
\* positions inside a card exchange
CardPcs == SendPcs \cup {"cp_send", "cn_select", "cn_pair", "cn_open",
                         "cn_status"}

\* C7: a thread inside a card exchange holds m_operationMutex, and no call
\* ever goes through a CommandSet that stop() has torn down.
C7_MutexGuardsTeardown ==
    /\ \A t \in SmThreads : smThr[t].pc \in CardPcs => m_operationMutex = t
    /\ crashed # TornDown

\* ---------------------------------------------------------------------------
\* C9
\* ---------------------------------------------------------------------------
\* the connect sequence, with PAIR left out when the pairing is stored
ConnectSequences ==
    {<<"SELECT", "PAIR", "OPEN_SECURE_CHANNEL", "GET_STATUS">>,
     <<"SELECT", "OPEN_SECURE_CHANNEL", "GET_STATUS">>}

\* C9: once the card of the current insertion is connected (Ready or
\* Authorized, nothing of the connect pending), the commands the connect has
\* sent since the insertion are exactly one connect sequence, and the
\* CommandSet in use was constructed during this insertion.
C9_OneConnectPerInsertion ==
    /\ sm_state \in {"Ready", "Authorized"}
    /\ card = "initialized"
    /\ m_currentCardUID = CardUid
    /\ smThr["main"].pc = "idle"
    /\ bgPending = 0 /\ m_operationMutex # "bg" /\ smQ = <<>>
    => /\ connLog \in ConnectSequences
       /\ m_commandSet >= 0 => m_commandSet = insertion

\* ---------------------------------------------------------------------------
\* C10
\* ---------------------------------------------------------------------------
\* C10: a detection of the card that is already the current one, in state
\* Ready, Authorized or ConnectingCard, changes nothing: no state change, no
\* connect started on the main thread or in the background, the CommandSet
\* kept.
C10_SameUidIgnored ==
    [][/\ smCalls'.retaps < smCalls.retaps
       /\ m_currentCardUID = CardUid
       /\ sm_state \in {"Ready", "Authorized", "ConnectingCard"}
       => /\ sm_state' = sm_state
          /\ smThr' = smThr
          /\ bgPending' = bgPending
          /\ m_commandSet' = m_commandSet]_vars

\* ---------------------------------------------------------------------------
\* C11
\* ---------------------------------------------------------------------------
\* C11: when initialize or factoryReset returns success, the CommandSet is
\* torn down, the current UID is empty, the session is not authorized and the
\* channel has been told to disconnect and then to scan.
C11_ResetTearsDown ==
    [][\A t \in SmCallers :
          smThr[t].pc = "rc_close" /\ smThr'[t].pc = "idle"
          => /\ m_commandSet' < 0
             /\ m_currentCardUID' = ""
             /\ ~m_authorized'
             /\ chanOps' = <<"disconnect", "forceScan">>]_vars

\* ---------------------------------------------------------------------------
\* C12
\* ---------------------------------------------------------------------------
\* the card has accepted the INIT of an initialize call, and nothing disturbs
\* the session from here on: it is started, no further call or reader event
\* comes, and no other call is in progress
InitializeAccepted ==
    /\ \E t \in SmCallers :
         /\ smThr[t].pc = "rc_close" /\ smThr[t].op = "initialize"
         /\ \A u \in SmCallers \ {t} : smThr[u].pc = "idle"
    /\ m_started /\ m_channel
    /\ smCalls.all = 0

\* C12: after an accepted initialize the session is torn down, the card is
\* detected again, the full connect sequence runs and the session ends in
\* Ready.
C12_InitializeEndsReady ==
    InitializeAccepted ~> (sm_state = "Ready" /\ connLog \in ConnectSequences)

\* ---------------------------------------------------------------------------
\* C13: every started flow that is not cancelled hands exactly one flow-result
\* signal to the application: never more than one, and one once the flow is
\* over (its object cleaned up, its worker exited, none of its signals still
\* queued, the event loop idle)
\* ---------------------------------------------------------------------------
FlowOver(f) ==
    /\ flows[f].st = "deleted"
    /\ \A k \in FlowIds : tasks[k].flow = f => tasks[k].pc = "done"
    /\ \A i \in 1..Len(mainQ) : mainQ[i].f # f
    /\ thr["main"].pc = "idle"

C13_OneFlowResult ==
    \A f \in FlowIds :
       flows[f].st # "none" /\ ~flows[f].m_cancelled
       => /\ flows[f].results <= 1
          /\ FlowOver(f) => flows[f].results = 1

\* ---------------------------------------------------------------------------
\* C14: once cancelFlow has cancelled a flow that was paused waiting for a
\* card (its insert-card signal handed out), no signal of any kind is handed
\* to the application for that flow any more, and when that cancelFlow call
\* returns the engine is Idle
\* ---------------------------------------------------------------------------
C14_CancelWhileWaiting ==
    [][/\ \A f \in FlowIds :
             flows[f].waitCancelled => flows'[f].signals = flows[f].signals
       /\ \A t \in ApiThreads :
             /\ thr[t].op = "cancelFlow"
             /\ flows[thr[t].f].waitCancelled
             /\ thr[t].pc = "cu_lock"
             /\ thr'[t].pc = "idle"
             => m_state' = "Idle"]_vars

\* a cancelFlow call that cancelled a flow waiting for a card has returned
C14_Witness ==
    \E f \in FlowIds :
       /\ flows[f].waitCancelled
       /\ flows[f].st = "deleted"
       /\ m_state = "Idle"
       /\ \A t \in Threads : thr[t].pc = "idle"
       /\ \A k \in FlowIds : tasks[k].flow = f => tasks[k].pc = "done"

\* ---------------------------------------------------------------------------
\* C15: after cancelFlow has cancelled a flow, the worker of that flow sends
\* no further command to the card (the command log changes only when a
\* command is sent), and the flow object is not handed to deletion while a
\* worker is still executing it
\* ---------------------------------------------------------------------------
C15_CancelUnwinds ==
    [][\A k \in FlowIds :
          tasks[k].flow # 0 =>
             /\ (/\ flows[tasks[k].flow].m_cancelled
                 /\ tasks'[k] # tasks[k])
                => (apduLog' = apduLog \/ apduLog' = <<>>)
             /\ (/\ flows[tasks[k].flow].st = "live"
                 /\ flows'[tasks[k].flow].st = "deleted")
                => tasks[k].pc = "done"]_vars

\* ---------------------------------------------------------------------------
\* C16: when execute() returns with should_restart set (and the flow not
\* cancelled), the engine clears the card snapshot of the flow and the flag,
\* re-enters execute() at its top, and emits no flowCompleted and hands out no
\* flow-result for the pass that returned; a worker re-enters execute() only
\* from such a return, and the re-entry consumes the flag, so there is one
\* re-entry per set
\* ---------------------------------------------------------------------------
\* the worker task k is at the top of execute()
AtTopOfExecute(task) ==
    task.pc = "wfc0" /\ task.wfcRet = FirstSelect(task.flow)

C16_RestartStep ==
    \A k \in FlowIds :
       (/\ tasks[k].pc = "ret"
        /\ tasks'[k] # tasks[k]
        /\ flows[tasks[k].flow].m_shouldRestart
        /\ ~flows[tasks[k].flow].m_cancelled)
       => /\ AtTopOfExecute(tasks'[k])
          /\ flows'[tasks[k].flow].instanceUID = ""
          /\ ~flows'[tasks[k].flow].hasKeys
          /\ flows'[tasks[k].flow].pinRetries = -1
          /\ ~flows'[tasks[k].flow].m_shouldRestart
          /\ flows'[tasks[k].flow].results = flows[tasks[k].flow].results
          /\ mainQ' = mainQ

C16_ReentryOnlyOnRestart ==
    \A k \in FlowIds :
       (/\ tasks[k].pc \notin {"none", "queued"}
        /\ tasks'[k] # tasks[k]
        /\ AtTopOfExecute(tasks'[k]))
       => /\ tasks[k].pc = "ret"
          /\ flows[tasks[k].flow].m_shouldRestart
          /\ ~flows'[tasks[k].flow].m_shouldRestart

WrongPinStep(k) ==
    /\ tasks[k].pc \in {"vpin", "vpin2", "vpin_retry"}
    /\ tasks'[k] # tasks[k]
    /\ ParamString(flows[tasks[k].flow].m_params, "pin") = "bad"
    /\ ~(tasks[k].pc # "vpin" /\ flows[tasks[k].flow].m_cancelled)

C17_WrongPinRetries ==
    [][\A k \in FlowIds :
          WrongPinStep(k) =>
             LET before == flows[tasks[k].flow].pinRetries
                 after == flows'[tasks[k].flow].pinRetries IN
             /\ after = before - 1
             /\ after > 0 => /\ tasks'[k].pc = "p_lock"
                             /\ tasks'[k].action = "enter-pin"
             /\ tasks'[k].pc = "ret" => after = 0]_vars

C19_MakeCurrentFirstOnly ==
    \A i \in 1..Len(exportLog) : exportLog[i] = (i = 1)

\* ---------------------------------------------------------------------------
\* C20: the first key the Login flow exports after authenticating is the
\* Whisper key, exported with makeCurrent = true, and the Encryption key is
\* exported after it: in the command log, what follows the last VERIFY PIN is
\* that Whisper export, and an Encryption export comes right after it
\* ---------------------------------------------------------------------------
C20_LoginExportOrder ==
    \A i \in 1..Len(apduLog) :
       /\ apduLog[i] = "VERIFY_PIN" /\ i < Len(apduLog)
          => apduLog[i + 1] \in {"VERIFY_PIN", ExportCommand(WHISPER_PATH, TRUE)}
       /\ apduLog[i] \in {ExportCommand(ENCRYPTION_PATH, m) : m \in BOOLEAN}
          => /\ i > 1
             /\ apduLog[i - 1] = ExportCommand(WHISPER_PATH, TRUE)

\* ---------------------------------------------------------------------------
\* C21: a LoadAccount flow started with {mnemonic-length: 12, new-pin,
\* new-puk} on a pre-initialized card first pauses with enter-new-pin /
\* require-init; resumed with the same params it initializes the card, and
\* its next pause (not counting a wait for the card's re-detection) is
\* enter-mnemonic / loading-keys with 12 mnemonic indexes
\* ---------------------------------------------------------------------------
\* the worker of a LoadAccount flow that was given no other params than the
\* ones it was started with is in a pause that is not a wait for the card
LoadAccountPaused(k) ==
    /\ tasks[k].flow # 0
    /\ flows[tasks[k].flow].ty = "LoadAccount"
    /\ flows[tasks[k].flow].m_params = LoadAccountParams
    /\ tasks[k].pc \in {"p_lock", "p_checked", "p_waiting", "p_woken"}
    /\ tasks[k].action # "insert-card"

C21_LoadAccountPauses ==
    \A k \in FlowIds :
       LoadAccountPaused(k) =>
          IF card = "empty"
          THEN tasks[k].action = "enter-new-pin" /\ tasks[k].error = "require-init"
          ELSE /\ tasks[k].action = "enter-mnemonic"
               /\ tasks[k].error = "loading-keys"
               /\ tasks[k].indexes = 12

\* ---------------------------------------------------------------------------
\* C22: right after storePairing or removePairing has returned success, the
\* file holds the map that is in memory
\* ---------------------------------------------------------------------------
C22_FlushedOnStoreAndRemove ==
    (storeRet.op \in {"store", "remove"} /\ storeRet.ok) =>
        /\ pairingsFile.kind = "json"
        /\ pairingsOfJson(pairingsFile.root) = m_pairings

\* ---------------------------------------------------------------------------
\* C23: a new PairingStorage that loads the file of a completed save() holds,
\* for every instance UID, the key bytes and the index that were saved
\* ---------------------------------------------------------------------------
C23_LoadReturnsSaved ==
    (storeRet.op = "load" /\ savedPairings.complete) =>
        /\ storeRet.ok
        /\ \A uid \in InstanceUids :
              /\ m_pairings[uid].key = savedPairings.pairings[uid].key
              /\ m_pairings[uid].index = savedPairings.pairings[uid].index

\* two UIDs with different keys and indexes were saved and loaded again
C23_Witness ==
    /\ storeRet.op = "load"
    /\ savedPairings.complete
    /\ m_pairings["i1"] = [key |-> <<171, 10>>, index |-> 1]
    /\ m_pairings["i2"] = [key |-> <<10>>, index |-> 0]

\* ---------------------------------------------------------------------------
\* C24: getMetadata returns the name and the wallet indices that storeMetadata
\* was given
\* ---------------------------------------------------------------------------
C24_MetadataRoundTrip ==
    metaPc = "read" =>
        /\ metaRead.name = metaName
        /\ {metaRead.wallets[i] : i \in 1..Len(metaRead.wallets)}
              = {metaPaths[i] : i \in 1..Len(metaPaths)}

\* ---------------------------------------------------------------------------
\* C25: once PAIR of the connect sequence was refused for lack of a free
\* pairing slot, the session is in PairingError for as long as that card is
\* on the reader
\* ---------------------------------------------------------------------------
C25_NoSlotsPairingError ==
    (insertion > 0 /\ noSlotsAt = insertion /\ card # "none") =>
        sm_state = "PairingError"

\* ---------------------------------------------------------------------------
\* C26: onReaderAvailabilityChanged(true) received in a state other than
\* UnknownReaderState and WaitingForReader changes neither the session state
\* nor the command set nor its secure channel session; and it moves the
\* session to WaitingForCard from those two states only
\* ---------------------------------------------------------------------------
C26_AvailableStep ==
    OnReaderAvailabilityChangedV1(TRUE) \/ OnReaderAvailabilityChangedV2(TRUE)

C26_AvailableIgnored ==
    [][ C26_AvailableStep =>
          /\ (sm_state \notin {"UnknownReaderState", "WaitingForReader"} =>
                 UNCHANGED <<sm_state, m_commandSet, exportLog, m_authorized>>)
          /\ (sm_state' = "WaitingForCard" /\ sm_state # "WaitingForCard" =>
                 sm_state \in {"UnknownReaderState", "WaitingForReader"}) ]_vars

\* ---------------------------------------------------------------------------
\* C27: when onCardRemoved has run, the command set (and with it the secure
\* channel's crypto state) is destroyed and m_currentCardUID and m_authorized
\* are cleared, so that the next detection connects on a new command set
\* ---------------------------------------------------------------------------
C27_RemovalHandled ==
    \/ OnCardRemovedV1
    \/ CloseSecureChannelV2 /\ smThr["main"].op = "removed"

C27_RemovalDestroysCommandSet ==
    [][ C27_RemovalHandled =>
          /\ m_commandSet' = NoCommandSet
          /\ m_currentCardUID' = ""
          /\ ~m_authorized' ]_vars

\* ---------------------------------------------------------------------------
\* C28: start() on a session that is already started fails with the error
\* "Service already started" and leaves m_state and m_started as they are
\* ---------------------------------------------------------------------------
C28_SecondStart ==
    [][ \A t \in SmThreads :
          (m_started /\ Start(t)) =>
             /\ sm_lastError' = "Service already started"
             /\ sm_lastError' # ""
             /\ UNCHANGED <<sm_state, m_started>> ]_vars

\* a start() was refused and the session is still started
C28_Witness ==
    /\ m_started
    /\ sm_lastError = "Service already started"

\* ---------------------------------------------------------------------------
\* C29: startFlow with a type that is no FlowType returns false with a
\* non-empty last error and starts no worker; made on an Idle engine it leaves
\* the engine Idle with no current flow, and a startFlow with a valid type on
\* an Idle engine goes on to run the flow
\* ---------------------------------------------------------------------------
C29_InvalidFlowType ==
    [][ \A t \in ApiThreads :
          StartFlowLocked(t) =>
             /\ (thr[t].ty = "Invalid" =>
                   /\ thr'[t].pc = "idle"
                   /\ thr'[t].ret = "false"
                   /\ thr'[t].err # "" /\ m_lastError' # ""
                   /\ tasks' = tasks /\ flows' = flows
                   /\ (m_state = "Idle" =>
                          m_state' = "Idle" /\ m_currentFlow' = 0))
             /\ ((thr[t].ty = "Login" /\ m_state = "Idle") =>
                   /\ thr'[t].pc = "sf_run"
                   /\ m_state' = "Running"
                   /\ m_currentFlow' # 0) ]_vars

\* a startFlow with an invalid type has failed on the Idle engine, and a
\* startFlow with a valid type that took the lock after it is starting its
\* flow
C29_Witness ==
    \E t, u \in ApiThreads :
       /\ t # u
       /\ thr[t].pc = "idle" /\ thr[t].op = "startFlow"
       /\ thr[t].err = "Failed to create flow"
       /\ thr[u].pc = "sf_run"
       /\ m_state = "Running"
       /\ m_currentFlow = thr[u].f

\* ---------------------------------------------------------------------------
\* C30: getStatus sends no command to the card and does not take or wait for
\* m_operationMutex: it returns within its own step, whoever holds the mutex,
\* with the cached state
\* ---------------------------------------------------------------------------
C30_GetStatusCached ==
    [][ \A t \in SmCallers :
          GetStatus(t) =>
             /\ connLog' = connLog
             /\ m_operationMutex' = m_operationMutex
             /\ smThr'[t].pc = "idle"
             /\ statusRet'.state = sm_state
             /\ statusRet'.initialized = m_appInfo ]_vars

\* a getStatus has returned Ready while another thread held the mutex inside
\* authorize
C30_Witness ==
    /\ statusRet.state = "Ready"
    /\ statusRet.heldBy \in SmCallers
    /\ \E t \in SmCallers : smThr[t].pc = "au_send" /\ m_operationMutex = t

\* ---------------------------------------------------------------------------
\* C31: cancelFlow and resumeFlow issued concurrently on an active flow
\* ---------------------------------------------------------------------------
\* thread c is back from a cancelFlow and thread r from a resumeFlow that met
\* the same active flow, and neither has started another call
CancelAndResumeReturned(c, r) ==
    /\ c # r
    /\ thr[c].pc = "idle" /\ thr[c].op = "cancelFlow"
    /\ thr[r].pc = "idle" /\ thr[r].op = "resumeFlow"
    /\ thr[c].f # 0 /\ thr[r].f = thr[c].f

\* C31: once a cancelFlow and a resumeFlow issued on an active flow have both
\* returned, the engine is Idle, Paused or Running, never Resuming or
\* Cancelling
C31_StableAfterCancelAndResume ==
    \A c, r \in ApiThreads :
        CancelAndResumeReturned(c, r) => m_state \in {"Idle", "Paused", "Running"}

\* the resumeFlow ran while the cancelFlow was between its unlock and the end
\* of cleanupFlow, and both are back
C31_Witness ==
    \E c, r \in ApiThreads :
        /\ CancelAndResumeReturned(c, r)
        /\ thr[c].conc /\ thr[r].conc
        /\ thr[c].ret = "true" /\ thr[r].ret = "false"
        /\ m_state = "Idle"

\* ---------------------------------------------------------------------------
\* C32: the wallet-root key and the applet version
\* ---------------------------------------------------------------------------
\* version major.minor is at least 3.1
AtLeast31(major, minor) ==
    major > 3 \/ (major = 3 /\ minor >= 1)

\* C32: the wallet-root key is exported with exportKeyExtended if and only if
\* the applet version is at least 3.1, and with the plain exportKey otherwise
C32_ExtendedIffAtLeast31 ==
    recoverPc # "idle" =>
        /\ walletRootExport \in {"exportKey", "exportKeyExtended"}
        /\ walletRootExport = "exportKeyExtended"
               <=> AtLeast31(appVersion, appVersionMinor)

\* ---------------------------------------------------------------------------
\* C33: the StoreMetadata flow
\* ---------------------------------------------------------------------------
\* the UTF-8 bytes of the card names the application passes
nameBytesOf(name) == IF name = "A" THEN <<65>> ELSE <<>>

\* execute() of the StoreMetadata flow of task k has returned its card-info
\* result, i.e. finished without error
StoreMetadataFinished(k) ==
    /\ tasks[k].flow # 0
    /\ flows[tasks[k].flow].ty = "StoreMetadata"
    /\ tasks[k].pc \in {"ret", "done"}
    /\ tasks[k].action = "card-info"

\* C33, first part: the StoreMetadata flow pauses with enter-cardname only
\* when its params hold no card name
C33_PausesOnlyWithoutName ==
    [][\A k \in FlowIds :
          (tasks[k].pc = "md_name" /\ tasks'[k].pc = "p_lock")
          => /\ tasks'[k].action = "enter-cardname"
             /\ ParamString(flows[tasks[k].flow].m_params, "card-name") = ""]_vars

\* C33: a StoreMetadata flow that finished without error has written the
\* encoded card name and wallet paths to the card with STORE DATA
C33_FinishedHasStored ==
    \A k \in FlowIds :
        StoreMetadataFinished(k) =>
            \E p1 \in {P1StoreDataPublic, P1StoreDataNDEF} :
                LET name == nameBytesOf(ParamString(
                                flows[tasks[k].flow].m_params, "card-name")) IN
                cardData[p1] \in {encodeMetadataV2(name, <<>>),
                                  encodeMetadataV1(name, <<>>)}

\* ---------------------------------------------------------------------------
\* C34: the records the Pairing Store holds
\* ---------------------------------------------------------------------------
\* C34: every record held by the Pairing Store, whether put there by
\* storePairing or by load, has a key of exactly 32 bytes
C34_HoldsOnly32ByteKeys ==
    \A uid \in InstanceUids :
        m_pairings[uid] # NoPairing => Len(m_pairings[uid].key) = 32

\* ---------------------------------------------------------------------------
\* C35: m_operationMutex is not locked twice by one thread
\* ---------------------------------------------------------------------------
\* thread t holds m_operationMutex and its next statement locks it again:
\* exportRecoverKeys about to call exportLoginKeys, or initialize and
\* factoryReset of the later revision about to call closeSecureChannel
LocksAgain(t) ==
    /\ m_operationMutex = t
    /\ \/ smThr[t].pc = "er_login"
       \/ smThr[t].pc = "rc_close" /\ smRev = 2

\* C35: no operation of the Session Manager tries to lock m_operationMutex
\* on a thread that already holds it
C35_NoSecondLock ==
    \A t \in SmThreads : ~LocksAgain(t)

\* ---------------------------------------------------------------------------
\* C36: which pauses a card-detected event resumes
\* ---------------------------------------------------------------------------
\* the last pause of flow f, the one its worker is in, is an insert-card pause
LastPauseInsertCard(f) ==
    \E k \in FlowIds : /\ tasks[k].flow = f
                        /\ tasks[k].action = "insert-card"
                        /\ tasks[k].pc \in {"p_lock", "p_checked", "p_waiting"}

\* C36: the resumeFlow that onCardDetected issues is accepted only for a flow
\* whose last pause is insert-card; a flow paused for user input is never
\* resumed by a card event
C36_CardResumesOnlyInsertCard ==
    [][(thr["main"].pc = "rf_call" /\ thr'["main"].pc = "rf_resume")
       => LastPauseInsertCard(m_currentFlow)]_vars

\* ---------------------------------------------------------------------------
\* C37: the card states of the session need a card and a started manager
\* ---------------------------------------------------------------------------
\* C37: the session state is Ready, EmptyKeycard or Authorized only while
\* m_currentCardUID is not empty and the manager is started
C37_CardStateNeedsCard ==
    sm_state \in {"Ready", "EmptyKeycard", "Authorized"} =>
        m_currentCardUID # "" /\ m_started

\* C37, the connect sequence: the result of a background connect sequence
\* that arrives after onCardRemoved or stop has cleared m_currentCardUID does
\* not move the session to Ready or EmptyKeycard
C37_LateResultIgnored ==
    [][(ConnectResult /\ m_currentCardUID = "")
       => sm_state' \notin {"Ready", "EmptyKeycard"}]_vars

\* ---------------------------------------------------------------------------
\* C38: m_authorized and the Authorized state
\* ---------------------------------------------------------------------------
\* C38: m_authorized is true exactly when the session state is Authorized
C38_AuthorizedIffState ==
    m_authorized <=> sm_state = "Authorized"

\* C38, the case it singles out: m_authorized is false whenever the state is
\* ConnectingCard, Ready, WaitingForCard or UnknownReaderState
C38_NotAuthorizedBeforeAuthorize ==
    sm_state \in {"ConnectingCard", "Ready", "WaitingForCard",
                  "UnknownReaderState"} => ~m_authorized

\* ---------------------------------------------------------------------------
\* C39: pause signals and the Paused state
\* ---------------------------------------------------------------------------
\* a step of onFlowPaused that hands a pause signal to the application
PauseSignalDelivered ==
    \/ OnFlowPaused /\ Head(mainQ).a # "insert-card"
    \/ OnFlowPausedInsertCard

\* C39: no pause signal is delivered to the application while the engine is
\* Idle or Cancelling
C39_NoPauseSignalWhenIdleOrCancelling ==
    [][PauseSignalDelivered => m_state' \notin {"Idle", "Cancelling"}]_vars

\* C39, first part: when onFlowPaused delivers a pause signal its transition
\* to Paused has taken place
C39_PausedBeforeSignal ==
    [][(OnFlowPaused /\ Head(mainQ).a # "insert-card") => m_state' = "Paused"]_vars

\* ---------------------------------------------------------------------------
\* C40: FlowBase::waitForCard
\* ---------------------------------------------------------------------------
\* task k takes a step of waitForCard
WaitForCardStep(k) ==
    /\ tasks[k].pc \in {"wfc0", "wfc_sleep", "wfc_resumed"}
    /\ tasks'[k] # tasks[k]

\* C40: waitForCard returns true only when the channel is connected and false
\* only when the flow is cancelled; with a card present at entry or after the
\* 150 ms sleep it returns without pausing; and after a resume with no card
\* present it pauses again with insert-card and the error connection-error
C40_WaitForCard ==
    [][\A k \in FlowIds :
          WaitForCardStep(k) =>
             LET f == tasks[k].flow
                 cancelled == flows[f].m_cancelled IN
             /\ tasks'[k].pc = tasks[k].wfcRet => connected /\ ~cancelled
             /\ tasks'[k].pc = "ret" => cancelled
             /\ (tasks[k].pc \in {"wfc0", "wfc_sleep"} /\ connected /\ ~cancelled)
                   => tasks'[k].pc = tasks[k].wfcRet /\ mainQ' = mainQ
             /\ (tasks[k].pc = "wfc_resumed" /\ ~connected /\ ~cancelled)
                   => /\ tasks'[k].pc = "p_lock"
                      /\ tasks'[k].action = "insert-card"
                      /\ tasks'[k].error = "connection-error"
                      /\ tasks'[k].cont = "wfc_resumed"]_vars

\* a flow whose first insert-card signal was delivered has been resumed with
\* no card on the reader and has emitted its second insert-card pause
C40_Witness ==
    \E k \in FlowIds :
        /\ tasks[k].pc = "p_lock"
        /\ tasks[k].action = "insert-card"
        /\ tasks[k].error = "connection-error"
        /\ ~connected
        /\ ~flows[tasks[k].flow].m_cancelled
        /\ flows[tasks[k].flow].signals = 1
        /\ flowSignal = "insert-card"
        /\ \E i \in 1..Len(mainQ) : /\ mainQ[i].ev = "flowPaused"
                                     /\ mainQ[i].a = "insert-card"
                                     /\ mainQ[i].f = tasks[k].flow

==============================================================================
